---- MODULE Spec2Model ----
(***************************************************************************)
(* Authentication and session revocation of backend-starter-nestjs:        *)
(* the two guards (AuthGuard, AdminAuthGuard), the user and admin auth     *)
(* services (login, refresh, logout, password reset, email verification),  *)
(* the admin service (create, toggleStatus, delete) and the Redis blacklist. *)
(***************************************************************************)
EXTENDS Integers, FiniteSets, Sequences, TLC

VARIABLES
  now,               \* wall clock, in seconds
  storeUp,           \* TRUE while the Redis client can reach the store
  cfg,               \* process configuration (expiry strings, basic-auth flag)
  users,             \* prisma.user rows, by id (email stands for the id)
  admins,            \* prisma.admin rows, by id
  issued,            \* every token the services have signed so far
  redisTokens,       \* keys blacklist:<token> with their expiry instant
  redisIds,          \* keys blacklist:user:<id> / blacklist:admin:<id>
  passwordReset,     \* prisma.passwordReset rows, by <<type, email>>
  emailVerification, \* prisma.emailVerification rows (type SIGNUP), by user
  resp,              \* the response of the last request handled
  hist,              \* history of each reset record since it was issued
  calls              \* the requests in flight: where each one stands

vars == <<now, storeUp, cfg, users, admins, issued, redisTokens, redisIds,
          passwordReset, emailVerification, resp, hist, calls>>

----------------------------------------------------------------------------
(* Bounds of the model *)

MaxTime == 2
MaxIssued == 1
MaxGuesses == 4

Users == {1}
\* e-mail addresses that can still be registered
NewUsers == {2}
Admins == {1, 2}
Passwords == {"pw0", "pw1"}
Codes == {"1111", "2222"}

----------------------------------------------------------------------------
(* Program constants *)

MAX_PASSWORD_RESET_ATTEMPTS == 3
OTP_EXPIRATION_TIME == 5
DEFAULT_TOKEN_EXPIRY_SECONDS == 7 * 24 * 60 * 60
RESET_TOKEN_EXPIRY_SECONDS == 15 * 60

OtpWindow == OTP_EXPIRATION_TIME * 60

----------------------------------------------------------------------------
(* Expiry strings.  A string is modelled by its digits n and its unit u;   *)
(* u = "?" stands for a string the pattern ^(\d+)([smhdw])$ rejects.       *)

UnitMultiplier(u) ==
  CASE u = "s" -> 1
    [] u = "m" -> 60
    [] u = "h" -> 60 * 60
    [] u = "d" -> 60 * 60 * 24
    [] u = "w" -> 60 * 60 * 24 * 7
    [] OTHER -> DEFAULT_TOKEN_EXPIRY_SECONDS

parseExpiryToSeconds(expiry) ==
  IF expiry.u \notin {"s", "m", "h", "d", "w"}
    THEN DEFAULT_TOKEN_EXPIRY_SECONDS
    ELSE expiry.n * UnitMultiplier(expiry.u)

\* What jwtService.sign does with expiresIn: "<n><unit>" is n units of time.
SignLifetime(expiry) == expiry.n * UnitMultiplier(expiry.u)

Exp(n, u) == [n |-> n, u |-> u]


----------------------------------------------------------------------------
(* Tokens.  A signed token is its payload plus the secret that signed it;  *)
(* kind records which service issued it, typ the secret and the purpose,   *)
(* sub = 0 stands for a payload without sub (the password-reset token),   *)
(* role is the role claim ("none": a payload without it).                  *)

NoToken == [kind |-> "none", typ |-> "absent", sub |-> 0, email |-> 0, exp |-> 0,
            role |-> "none"]
Garbage == [kind |-> "none", typ |-> "garbage", sub |-> 0, email |-> 0, exp |-> 0,
            role |-> "none"]

Token(kind, typ, sub, email, exp) ==
  [kind |-> kind, typ |-> typ, sub |-> sub, email |-> email, exp |-> exp,
   role |-> "none"]

SecretOf(typ) == IF typ = "refresh" THEN "JWT_REFRESH_SECRET" ELSE "JWT_SECRET"

\* jwtService.decode: the payload without any verification, or null.
Decodable(t) == t.typ \in {"access", "refresh", "reset"}

Verify_AnySecret(t, secret) ==
  IF ~Decodable(t) THEN "JsonWebTokenError"
  ELSE IF now >= t.exp THEN "TokenExpiredError"
  ELSE "ok"

\* jwtService.verify: malformed / wrong signature first, then expiry.
Verify(t, secret) ==
  IF ~Decodable(t) \/ SecretOf(t.typ) # secret THEN "JsonWebTokenError"
  ELSE IF now >= t.exp THEN "TokenExpiredError"
  ELSE "ok"

\* The role the services pass to generateTokens: the role of the row they
\* have just read or created (a created user has the default role).
RoleClaim(kind, id) ==
  IF kind = "admin" THEN admins[id].role
  ELSE IF id \in DOMAIN users THEN users[id].role
  ELSE "USER"

\* generateTokens (both services): the access/refresh pair for a subject.
generateTokens(kind, id) ==
  [accessToken  |-> [Token(kind, "access", id, id, now + SignLifetime(cfg.access))
                       EXCEPT !.role = RoleClaim(kind, id)],
   refreshToken |-> [Token(kind, "refresh", id, id, now + SignLifetime(cfg.refresh))
                       EXCEPT !.role = RoleClaim(kind, id)]]

NoTokens == [accessToken |-> NoToken, refreshToken |-> NoToken]

PairSet(p) == {p.accessToken, p.refreshToken}

CanIssue == Cardinality(issued) < 2 * MaxIssued

\* Signing the same payload within the same second yields the same strings.
CanIssuePair(tokens) == PairSet(tokens) \subseteq issued \/ CanIssue

\* What a client can put in a request.
Presentable == issued \cup {Garbage, NoToken}

----------------------------------------------------------------------------
(* bcrypt *)

Hash(p) == <<"bcrypt", p>>
Compare(p, h) == h = Hash(p)

----------------------------------------------------------------------------
(* TokenBlacklistService *)

SetEx(store, key, ttl) ==
  {e \in store : e.key # key} \cup {[key |-> key, until |-> now + ttl]}

RedisGet(store, key) == \E e \in store : e.key = key /\ e.until > now

IdKey(ns, id) == <<ns, id>>

isTokenBlacklisted_WrongKey(t) == FALSE

isTokenBlacklisted_FailClosed(t) == IF storeUp THEN RedisGet(redisTokens, t) ELSE TRUE

isTokenBlacklisted(t) == IF storeUp THEN RedisGet(redisTokens, t) ELSE FALSE
isUserBlacklisted(id) == IF storeUp THEN RedisGet(redisIds, IdKey("user", id)) ELSE FALSE
isAdminBlacklisted(id) == IF storeUp THEN RedisGet(redisIds, IdKey("admin", id)) ELSE FALSE

----------------------------------------------------------------------------
(* Responses *)

\* The 'roles' metadata of a handler: absent, or a list of roles.
NoRoles == [declared |-> FALSE, roles |-> {}]
Roles(rs) == [declared |-> TRUE, roles |-> rs]

\* The request and its response.  caller is the id the controller hands to
\* the service (0: none), roles the metadata the guard read for the handler,
\* cred the e-mail and password of a login request, mail what became of the
\* e-mail the request asked EmailService to send ("none": no e-mail).
Resp(op, status, msg, id, tok, tokens) ==
  [op |-> op, status |-> status, msg |-> msg, id |-> id, tok |-> tok,
   tokens |-> tokens, caller |-> 0, roles |-> NoRoles, cred |-> <<0, "">>,
   mail |-> "none"]

NoRecord == [code |-> "none", expiresAt |-> 0, attempts |-> 0, verifiedAt |-> FALSE]

----------------------------------------------------------------------------
(* Initial state *)

ResetKeys == ({"USER"} \X Users) \cup ({"ADMIN"} \X Admins)

NoHist == [guesses |-> 0, verified |-> FALSE]

\* Requests that are handled at the same time, and a slot with no request.
\* pc is the await the request is suspended at, seen what it read before.
Calls == {1, 2, 3}
Idle == [pc |-> "idle", id |-> 0, action |-> "none", seen |-> 0]

\* The (email, SIGNUP) record of emailVerification, and every record whose
\* comparisons are counted.
SKey(e) == <<"SIGNUP", e>>
HistKeys == ResetKeys \cup ({"SIGNUP"} \X (Users \cup NewUsers))

UserShapes ==
  { [status |-> "ACTIVE", isDeleted |-> FALSE],
    [status |-> "DEACTIVATED", isDeleted |-> FALSE],
    [status |-> "DELETED", isDeleted |-> FALSE],
    [status |-> "ACTIVE", isDeleted |-> TRUE] }

InitWith(settings, basic, shapes, verified, suspended) ==
  /\ now = 0
  /\ storeUp = TRUE
  /\ \E e \in settings, b \in basic :
       cfg = [access |-> e[1], refresh |-> e[2], basicAuth |-> b]
  /\ \E sh \in shapes, ev \in verified :
       users = [u \in Users |->
                  [status |-> sh.status, isDeleted |-> sh.isDeleted,
                   emailVerified |-> ev, password |-> Hash("pw0"),
                   role |-> "USER"]]
  /\ \E sus \in suspended :
       admins = [a \in Admins |->
                  [status |-> "ACTIVE", isDeleted |-> FALSE,
                   isSuspended |-> (a = 2 /\ sus), isSuper |-> (a = 1),
                   role |-> IF a = 1 THEN "ADMIN" ELSE "MODERATOR",
                   password |-> IF a = 1 THEN Hash("root") ELSE Hash("pw0")]]
  /\ issued = {}
  /\ redisTokens = {}
  /\ redisIds = {}
  /\ passwordReset = [k \in ResetKeys |-> NoRecord]
  /\ hist = [k \in HistKeys |-> NoHist]
  /\ emailVerification = [u \in Users \cup NewUsers |-> NoRecord]
  /\ resp = Resp("init", 0, "", 0, NoToken, NoTokens)
  /\ calls = [c \in Calls |-> Idle]

ActiveShape == {[status |-> "ACTIVE", isDeleted |-> FALSE]}

InitUser == InitWith({<<Exp(1, "s"), Exp(2, "s")>>}, BOOLEAN, UserShapes, BOOLEAN, {FALSE})

InitSession == InitWith({<<Exp(1, "s"), Exp(2, "s")>>}, {FALSE}, ActiveShape, {TRUE}, {FALSE})

InitReset == InitWith({<<Exp(1, "s"), Exp(2, "s")>>}, {FALSE}, ActiveShape, {TRUE}, {FALSE})

InitAdmin == InitWith({<<Exp(3, "s"), Exp(2, "s")>>, <<Exp(2, "s"), Exp(1, "m")>>}, {FALSE}, ActiveShape, {TRUE}, BOOLEAN)

\* Redis drops a key once its time to live has run out.
Live(store, t) == {e \in store : e.until > t}

Advance(d, horizon) ==
  /\ now + d <= horizon
  /\ now' = now + d
  /\ redisTokens' = Live(redisTokens, now + d)
  /\ redisIds' = Live(redisIds, now + d)
  /\ resp' = Resp("tick", 0, "", 0, NoToken, NoTokens)
  /\ UNCHANGED <<calls, storeUp, cfg, users, admins, issued, passwordReset,
                 emailVerification, hist>>

\* The session flows are followed second by second.
Tick == Advance(1, MaxTime)

\* The reset flows are followed over the first seconds and, one OTP window
\* later, over the seconds around the expiry of the codes issued then.
ResetInstants == (0 .. MaxTime) \cup {OtpWindow + t : t \in 0 .. MaxTime}

TickOtp ==
  \E d \in {1, OtpWindow} :
    /\ now + d \in ResetInstants
    /\ Advance(d, OtpWindow + MaxTime)

Rec(code) == [code |-> code, expiresAt |-> now + OtpWindow, attempts |-> 0,
              verifiedAt |-> FALSE]

----------------------------------------------------------------------------
(* EmailQueue and EmailService.  queueOk tells whether the queue accepts   *)
(* the job; a job that cannot be queued is logged and dropped.             *)

addEmailToQueue_Rethrow(queueOk) == IF queueOk THEN "queued" ELSE "throw"

\* "queued", or "logged" when emailQueue.add threw and the catch logged it.
addEmailToQueue(queueOk) == IF queueOk THEN "queued" ELSE "logged"

\* No e-mail goes to the address of a deleted user account.
shouldSkipEmail(recipientEmail) ==
  /\ recipientEmail \in DOMAIN users
  /\ (users[recipientEmail].isDeleted \/ users[recipientEmail].status = "DELETED")

sendEmail(recipientEmail, queueOk) ==
  IF shouldSkipEmail(recipientEmail) THEN "skipped" ELSE addEmailToQueue(queueOk)

\* The address of an admin, as a key of the user table: admins and users
\* are registered under different addresses.
AdminEmail(e) == 0 - e

\* An exception that leaves a handler without being caught.
InternalError(op) == Resp(op, 500, "Internal server error", 0, NoToken, NoTokens)

----------------------------------------------------------------------------
(* AuthGuard (user guard) *)

AuthenticateUserBearer_NoStatusCheck(t) ==
  IF t = NoToken THEN "Invalid authorization type."
  ELSE IF isTokenBlacklisted(t) THEN "Token has been revoked."
  ELSE IF Verify(t, "JWT_SECRET") = "TokenExpiredError" THEN "Token expired."
  ELSE IF Verify(t, "JWT_SECRET") = "JsonWebTokenError" THEN "Malformed token."
  ELSE IF t.sub = 0 THEN "Authentication failed."
  ELSE IF isUserBlacklisted(t.sub) THEN "Authentication failed."
  ELSE IF t.sub \notin DOMAIN users THEN "Authentication failed."
  ELSE IF users[t.sub].isDeleted \/ users[t.sub].status = "DELETED"
    THEN "Authentication failed."
  ELSE "ok"

\* authenticateUser, Bearer path: the message of the rejection, or "ok".
\* Every exception raised inside the try block is re-mapped by the catch.
AuthenticateUserBearer(t) ==
  IF t = NoToken THEN "Invalid authorization type."
  ELSE IF isTokenBlacklisted(t) THEN "Token has been revoked."
  ELSE IF Verify(t, "JWT_SECRET") = "TokenExpiredError" THEN "Token expired."
  ELSE IF Verify(t, "JWT_SECRET") = "JsonWebTokenError" THEN "Malformed token."
  ELSE IF t.sub = 0 THEN "Authentication failed."
  ELSE IF isUserBlacklisted(t.sub) THEN "Authentication failed."
  ELSE IF t.sub \notin DOMAIN users THEN "Authentication failed."
  ELSE IF users[t.sub].isDeleted \/ users[t.sub].status = "DELETED"
    THEN "Authentication failed."
  ELSE IF users[t.sub].status # "ACTIVE" THEN "Authentication failed."
  ELSE "ok"

UserGuardBearer(t) ==
  /\ resp' = IF AuthenticateUserBearer(t) = "ok"
               THEN Resp("user.guard.bearer", 200, "AUTHENTICATED", t.sub, t, NoTokens)
               ELSE Resp("user.guard.bearer", 401, AuthenticateUserBearer(t), 0, t, NoTokens)
  /\ UNCHANGED <<calls, now, storeUp, cfg, users, admins, issued, redisTokens,
                 redisIds, passwordReset, emailVerification, hist>>

\* authenticateBasicAuth: e is the e-mail (0: no such user), p the password.
AuthenticateBasicAuth(e, p) ==
  IF e \notin DOMAIN users THEN FALSE
  ELSE IF users[e].isDeleted \/ users[e].status = "DELETED" THEN FALSE
  ELSE IF users[e].status # "ACTIVE" THEN FALSE
  ELSE Compare(p, users[e].password)

\* A Basic header while the flag is off falls through to the scheme check.
UserGuardBasic(e, p) ==
  /\ resp' = IF ~cfg.basicAuth
               THEN Resp("user.guard.basic", 401, "Invalid authorization type.",
                         0, NoToken, NoTokens)
             ELSE IF AuthenticateBasicAuth(e, p)
               THEN Resp("user.guard.basic", 200, "AUTHENTICATED", e, NoToken, NoTokens)
               ELSE Resp("user.guard.basic", 401, "Basic Auth authentication failed.",
                         0, NoToken, NoTokens)
  /\ UNCHANGED <<calls, now, storeUp, cfg, users, admins, issued, redisTokens,
                 redisIds, passwordReset, emailVerification, hist>>

\* authorizeUser: TRUE, or FALSE for 'Insufficient permissions.'
authorizeUser(role, requiredRoles) ==
  IF ~requiredRoles.declared \/ requiredRoles.roles = {} THEN TRUE
  ELSE role \in requiredRoles.roles

\* canActivate with a Bearer header: authenticateUser, then authorizeUser.
UserCanActivate(t, requiredRoles) ==
  LET op == "user.canActivate" IN
  /\ resp' = [(IF AuthenticateUserBearer(t) # "ok"
                 THEN Resp(op, 401, AuthenticateUserBearer(t), 0, t, NoTokens)
               ELSE IF ~authorizeUser(users[t.sub].role, requiredRoles)
                 THEN Resp(op, 401, "Insufficient permissions.", t.sub, t, NoTokens)
               ELSE Resp(op, 200, "ACTIVATED", t.sub, t, NoTokens))
              EXCEPT !.roles = requiredRoles]
  /\ UNCHANGED <<calls, now, storeUp, cfg, users, admins, issued, redisTokens,
                 redisIds, passwordReset, emailVerification, hist>>

\* canActivate with a Basic header.
UserCanActivateBasic(e, p, requiredRoles) ==
  LET op == "user.canActivate.basic" IN
  /\ resp' = [(IF ~cfg.basicAuth
                 THEN Resp(op, 401, "Invalid authorization type.", 0, NoToken, NoTokens)
               ELSE IF ~AuthenticateBasicAuth(e, p)
                 THEN Resp(op, 401, "Basic Auth authentication failed.", 0,
                           NoToken, NoTokens)
               ELSE IF ~authorizeUser(users[e].role, requiredRoles)
                 THEN Resp(op, 401, "Insufficient permissions.", e, NoToken, NoTokens)
               ELSE Resp(op, 200, "ACTIVATED", e, NoToken, NoTokens))
              EXCEPT !.roles = requiredRoles]
  /\ UNCHANGED <<calls, now, storeUp, cfg, users, admins, issued, redisTokens,
                 redisIds, passwordReset, emailVerification, hist>>

----------------------------------------------------------------------------
(* UserAuthService *)

\* sendEmailVerificationCode: the upsert of the SIGNUP record.
sendEmailVerificationCode_NoUpsert(e, code) == emailVerification

sendEmailVerificationCode(e, code) ==
  [emailVerification EXCEPT ![e] = Rec(code)]

\* login: <<status, message>> of the response.
UserLoginCheck(e, p) ==
  IF e \notin DOMAIN users THEN <<401, "Invalid email or password">>
  ELSE IF ~users[e].emailVerified THEN <<200, "Please verify your email first">>
  ELSE IF users[e].isDeleted \/ users[e].status = "DELETED"
    THEN <<401, "This account does not exist">>
  ELSE IF users[e].status # "ACTIVE" THEN <<401, "You can't login at the moment">>
  ELSE IF ~Compare(p, users[e].password) THEN <<401, "Invalid email or password">>
  ELSE <<200, "Login successful">>

UserLogin(e, p, code, emailOk) ==
  LET op == "user.login"
      chk == UserLoginCheck(e, p)
      tokens == generateTokens("user", e)
      mail == sendEmail(e, emailOk)
  IN
  IF chk[1] # 200 THEN
    /\ resp' = [Resp(op, chk[1], chk[2], 0, NoToken, NoTokens)
                  EXCEPT !.cred = <<e, p>>]
    /\ UNCHANGED <<calls, now, storeUp, cfg, users, admins, issued, redisTokens,
                   redisIds, passwordReset, emailVerification, hist>>
  ELSE IF chk[2] = "Please verify your email first" THEN
    \* sendEmailVerificationCode: upsert, then the e-mail
    /\ emailVerification' = sendEmailVerificationCode(e, code)
    /\ hist' = [hist EXCEPT ![SKey(e)] = NoHist]
    /\ resp' = IF mail = "throw"
                 THEN [InternalError(op) EXCEPT !.cred = <<e, p>>, !.mail = mail]
                 ELSE [Resp(op, 200, chk[2], e, NoToken, NoTokens)
                         EXCEPT !.cred = <<e, p>>, !.mail = mail]
    /\ UNCHANGED <<calls, now, storeUp, cfg, users, admins, issued, redisTokens,
                   redisIds, passwordReset>>
  ELSE
    /\ CanIssuePair(tokens)
    /\ issued' = issued \cup PairSet(tokens)
    /\ resp' = [Resp(op, 200, "Login successful", e, NoToken, tokens)
                  EXCEPT !.cred = <<e, p>>]
    /\ UNCHANGED <<calls, now, storeUp, cfg, users, admins, redisTokens, redisIds,
                   passwordReset, emailVerification, hist>>

\* The row prisma.user.create writes for a registration.
NewUser(p) ==
  [status |-> "ACTIVE", isDeleted |-> FALSE, emailVerified |-> FALSE,
   password |-> Hash(p), role |-> "USER"]

register(e, p, code, emailOk) ==
  LET op == "user.register"
      tokens == generateTokens("user", e)
      mail == sendEmail(e, emailOk)
  IN
  IF e \in DOMAIN users THEN
    /\ resp' = Resp(op, 409, "User with this email already exists", 0,
                    NoToken, NoTokens)
    /\ UNCHANGED <<calls, now, storeUp, cfg, users, admins, issued, redisTokens,
                   redisIds, passwordReset, emailVerification, hist>>
  ELSE IF mail = "throw" THEN
    /\ users' = users @@ (e :> NewUser(p))
    /\ emailVerification' = sendEmailVerificationCode(e, code)
    /\ hist' = [hist EXCEPT ![SKey(e)] = NoHist]
    /\ resp' = [InternalError(op) EXCEPT !.mail = mail]
    /\ UNCHANGED <<calls, now, storeUp, cfg, admins, issued, redisTokens,
                   redisIds, passwordReset>>
  ELSE
    /\ CanIssuePair(tokens)
    /\ users' = users @@ (e :> NewUser(p))
    /\ emailVerification' = sendEmailVerificationCode(e, code)
    /\ hist' = [hist EXCEPT ![SKey(e)] = NoHist]
    /\ issued' = issued \cup PairSet(tokens)
    /\ resp' = [Resp(op, 200, "User registered successfully. Please verify your email.",
                     e, NoToken, tokens)
                  EXCEPT !.mail = mail]
    /\ UNCHANGED <<calls, now, storeUp, cfg, admins, redisTokens, redisIds,
                   passwordReset>>

resendVerification(e, code, emailOk) ==
  LET op == "user.resendVerification"
      mail == sendEmail(e, emailOk)
  IN
  IF e \notin DOMAIN users THEN
    /\ resp' = Resp(op, 404, "Please check your email and try again", 0,
                    NoToken, NoTokens)
    /\ UNCHANGED <<calls, now, storeUp, cfg, users, admins, issued, redisTokens,
                   redisIds, passwordReset, emailVerification, hist>>
  ELSE IF users[e].emailVerified THEN
    /\ resp' = Resp(op, 400, "Email already verified", 0, NoToken, NoTokens)
    /\ UNCHANGED <<calls, now, storeUp, cfg, users, admins, issued, redisTokens,
                   redisIds, passwordReset, emailVerification, hist>>
  ELSE
    /\ emailVerification' = sendEmailVerificationCode(e, code)
    /\ hist' = [hist EXCEPT ![SKey(e)] = NoHist]
    /\ resp' = IF mail = "throw" THEN [InternalError(op) EXCEPT !.mail = mail]
               ELSE [Resp(op, 200, "Verification code sent to your email", e,
                          NoToken, NoTokens)
                       EXCEPT !.mail = mail]
    /\ UNCHANGED <<calls, now, storeUp, cfg, users, admins, issued, redisTokens,
                   redisIds, passwordReset>>

UserVerifyEmail(e, code) ==
  LET op == "user.verifyEmail"
      tokens == generateTokens("user", e)
      Answer(status, msg, id, pair) ==
        [Resp(op, status, msg, id, NoToken, pair) EXCEPT !.cred = <<e, code>>]
  IN
  IF e \notin DOMAIN users THEN
    /\ resp' = Answer(404, "Please check your email and try again", 0, NoTokens)
    /\ UNCHANGED <<calls, now, storeUp, cfg, users, admins, issued, redisTokens,
                   redisIds, passwordReset, emailVerification, hist>>
  ELSE IF emailVerification[e] = NoRecord THEN
    /\ resp' = Answer(400, "Please request a new verification code", 0, NoTokens)
    /\ UNCHANGED <<calls, now, storeUp, cfg, users, admins, issued, redisTokens,
                   redisIds, passwordReset, emailVerification, hist>>
  ELSE IF emailVerification[e].expiresAt < now THEN
    /\ resp' = Answer(400, "Verification code expired", 0, NoTokens)
    /\ UNCHANGED <<calls, now, storeUp, cfg, users, admins, issued, redisTokens,
                   redisIds, passwordReset, emailVerification, hist>>
  ELSE IF emailVerification[e].code # code THEN
    \* the record is left as it is; hist counts the comparison
    /\ hist[SKey(e)].guesses < MaxGuesses
    /\ hist' = [hist EXCEPT ![SKey(e)].guesses = @ + 1]
    /\ resp' = Answer(400, "Invalid verification code", 0, NoTokens)
    /\ UNCHANGED <<calls, now, storeUp, cfg, users, admins, issued, redisTokens,
                   redisIds, passwordReset, emailVerification>>
  ELSE
    /\ CanIssuePair(tokens)
    /\ users' = [users EXCEPT ![e].emailVerified = TRUE]
    /\ emailVerification' = [emailVerification EXCEPT ![e] = NoRecord]
    /\ issued' = issued \cup PairSet(tokens)
    /\ resp' = Answer(200, "Email verified successfully", e, tokens)
    /\ UNCHANGED <<calls, now, storeUp, cfg, admins, redisTokens, redisIds, passwordReset, hist>>

\* refreshToken: "ok" or the reason of the rejection; the catch block turns
\* every reason into the same 401 'Invalid refresh token'.
UserRefreshCheck(t) ==
  IF isTokenBlacklisted(t) THEN "Token has been revoked"
  ELSE IF Verify(t, "JWT_REFRESH_SECRET") # "ok" THEN Verify(t, "JWT_REFRESH_SECRET")
  ELSE IF isUserBlacklisted(t.sub) THEN "User tokens have been revoked"
  ELSE IF t.sub \notin DOMAIN users THEN "Please log in again"
  ELSE IF users[t.sub].isDeleted \/ users[t.sub].status # "ACTIVE"
    THEN "Please log in again"
  ELSE "ok"

\* refreshToken with rotation: the presented token is blacklisted on success.
UserRefreshToken_Rotate(t) ==
  LET op == "user.refreshToken"
      tokens == generateTokens("user", t.sub)
  IN
  IF UserRefreshCheck(t) # "ok" THEN
    /\ resp' = Resp(op, 401, "Invalid refresh token", 0, t, NoTokens)
    /\ UNCHANGED <<calls, now, storeUp, cfg, users, admins, issued, redisTokens,
                   redisIds, passwordReset, emailVerification, hist>>
  ELSE
    /\ CanIssuePair(tokens)
    /\ issued' = issued \cup PairSet(tokens)
    /\ redisTokens' = IF storeUp /\ t.exp > now
                        THEN SetEx(redisTokens, t, t.exp - now) ELSE redisTokens
    /\ resp' = Resp(op, 200, "Token refreshed successfully", t.sub, t, tokens)
    /\ UNCHANGED <<calls, now, storeUp, cfg, users, admins, redisIds,
                   passwordReset, emailVerification, hist>>

UserRefreshToken(t) ==
  LET op == "user.refreshToken"
      tokens == generateTokens("user", t.sub)
  IN
  IF UserRefreshCheck(t) # "ok" THEN
    /\ resp' = Resp(op, 401, "Invalid refresh token", 0, t, NoTokens)
    /\ UNCHANGED <<calls, now, storeUp, cfg, users, admins, issued, redisTokens,
                   redisIds, passwordReset, emailVerification, hist>>
  ELSE
    /\ CanIssuePair(tokens)
    /\ issued' = issued \cup PairSet(tokens)
    /\ resp' = Resp(op, 200, "Token refreshed successfully", t.sub, t, tokens)
    /\ UNCHANGED <<calls, now, storeUp, cfg, users, admins, redisTokens, redisIds,
                   passwordReset, emailVerification, hist>>

TTL(t) == IF t.exp - now > 0 THEN t.exp - now ELSE 0

\* The blacklist writes of UserAuthService.logout, in order; a write that
\* throws (store unreachable) abandons the rest.
UserLogoutWrites(at, rt) ==
  IF ~Decodable(at) \/ ~Decodable(rt) THEN redisTokens
  ELSE IF ~storeUp THEN redisTokens
  ELSE LET s1 == IF TTL(at) > 0 THEN SetEx(redisTokens, at, TTL(at)) ELSE redisTokens
       IN IF TTL(rt) > 0 THEN SetEx(s1, rt, TTL(rt)) ELSE s1

\* The outcome of the try block of logout.
UserLogoutTry(at, rt) ==
  IF ~Decodable(at) \/ ~Decodable(rt) THEN "Invalid tokens"
  ELSE IF (TTL(at) > 0 \/ TTL(rt) > 0) /\ ~storeUp THEN "blacklistToken failed"
  ELSE "ok"

\* The catch block logs and returns the same envelope.
UserLogoutResponse_Rethrow(at, rt) ==
  IF UserLogoutTry(at, rt) = "ok" THEN <<200, "Logout successful">>
  ELSE <<500, UserLogoutTry(at, rt)>>

UserLogoutResponse(at, rt) ==
  IF UserLogoutTry(at, rt) = "ok" THEN <<200, "Logout successful">>
  ELSE <<200, "Logout successful">>

UserLogout(at, rt) ==
  /\ redisTokens' = UserLogoutWrites(at, rt)
  /\ resp' = Resp("user.logout", UserLogoutResponse(at, rt)[1],
                  UserLogoutResponse(at, rt)[2], 0, at,
                  [accessToken |-> at, refreshToken |-> rt])
  /\ UNCHANGED <<calls, now, storeUp, cfg, users, admins, issued, redisIds,
                 passwordReset, emailVerification, hist>>

----------------------------------------------------------------------------
(* AdminAuthGuard *)

\* authenticateAdmin: <<status, message>> of the rejection, or <<200, "ok">>.
AuthenticateAdmin(t) ==
  IF t = NoToken THEN <<401, "Invalid authorization type">>
  ELSE IF isTokenBlacklisted(t) THEN <<401, "Token has been revoked.">>
  ELSE IF Verify(t, "JWT_SECRET") = "TokenExpiredError" THEN <<401, "Token expired">>
  ELSE IF Verify(t, "JWT_SECRET") = "JsonWebTokenError" THEN <<400, "Invalid token">>
  ELSE IF t.sub = 0 THEN <<401, "Invalid token">>
  ELSE IF isAdminBlacklisted(t.sub) THEN <<401, "Admin tokens have been revoked.">>
  ELSE IF t.sub \notin DOMAIN admins THEN <<401, "Admin not found">>
  ELSE IF admins[t.sub].isDeleted THEN <<401, "Admin not found">>
  ELSE IF admins[t.sub].isSuspended THEN <<401, "Admin suspended">>
  ELSE <<200, "ok">>

AdminGuard(t) ==
  /\ resp' = IF AuthenticateAdmin(t)[1] = 200
               THEN Resp("admin.guard", 200, "AUTHENTICATED", t.sub, t, NoTokens)
               ELSE Resp("admin.guard", AuthenticateAdmin(t)[1], AuthenticateAdmin(t)[2],
                         0, t, NoTokens)
  /\ UNCHANGED <<calls, now, storeUp, cfg, users, admins, issued, redisTokens,
                 redisIds, passwordReset, emailVerification, hist>>

authorizeAdmin_AllowAll(role, requiredRoles) == TRUE

\* authorizeAdmin: TRUE, or FALSE for 'Insufficient permissions'
authorizeAdmin(role, requiredRoles) ==
  IF ~requiredRoles.declared \/ requiredRoles.roles = {} THEN TRUE
  ELSE role \in requiredRoles.roles

AdminCanActivateCheck_TokenRole(t, requiredRoles) ==
  IF AuthenticateAdmin(t)[1] # 200 THEN AuthenticateAdmin(t)
  ELSE IF ~authorizeAdmin(t.role, requiredRoles)
    THEN <<401, "Insufficient permissions">>
  ELSE <<200, "ok">>

\* The outcome of canActivate: <<status, message>>, <<200, "ok">> to proceed.
\* req.admin.role is the role of the row authenticateAdmin has read.
AdminCanActivateCheck(t, requiredRoles) ==
  IF AuthenticateAdmin(t)[1] # 200 THEN AuthenticateAdmin(t)
  ELSE IF ~authorizeAdmin(admins[t.sub].role, requiredRoles)
    THEN <<401, "Insufficient permissions">>
  ELSE <<200, "ok">>

\* canActivate: authenticateAdmin, then authorizeAdmin.
AdminCanActivate(t, requiredRoles) ==
  LET op == "admin.canActivate"
      chk == AdminCanActivateCheck(t, requiredRoles)
  IN
  /\ resp' = [(IF chk[1] # 200
                 THEN Resp(op, chk[1], chk[2],
                           IF AuthenticateAdmin(t)[1] = 200 THEN t.sub ELSE 0,
                           t, NoTokens)
                 ELSE Resp(op, 200, "ACTIVATED", t.sub, t, NoTokens))
              EXCEPT !.roles = requiredRoles]
  /\ UNCHANGED <<calls, now, storeUp, cfg, users, admins, issued, redisTokens,
                 redisIds, passwordReset, emailVerification, hist>>

----------------------------------------------------------------------------
(* AdminAuthService *)

\* login: the message of the rejection, or "ok".
AdminLoginCheck(e, p) ==
  IF e \notin DOMAIN admins THEN "Invalid email or password"
  ELSE IF admins[e].isDeleted \/ admins[e].isSuspended THEN "Admin account is inactive"
  ELSE IF ~Compare(p, admins[e].password) THEN "Invalid email or password"
  ELSE "ok"

AdminLogin(e, p) ==
  LET op == "admin.login"
      tokens == generateTokens("admin", e)
  IN
  IF AdminLoginCheck(e, p) # "ok" THEN
    /\ resp' = [Resp(op, 401, AdminLoginCheck(e, p), 0, NoToken, NoTokens)
                  EXCEPT !.cred = <<e, p>>]
    /\ UNCHANGED <<calls, now, storeUp, cfg, users, admins, issued, redisTokens,
                   redisIds, passwordReset, emailVerification, hist>>
  ELSE
    /\ CanIssuePair(tokens)
    /\ issued' = issued \cup PairSet(tokens)
    /\ resp' = [Resp(op, 200, "Login successful", e, NoToken, tokens)
                  EXCEPT !.cred = <<e, p>>]
    /\ UNCHANGED <<calls, now, storeUp, cfg, users, admins, redisTokens, redisIds,
                   passwordReset, emailVerification, hist>>

\* refreshToken: "ok" or the reason of the rejection; the catch block turns
\* every reason into 401 'Invalid or expired refresh token'.
AdminRefreshCheck(t) ==
  IF isTokenBlacklisted(t) THEN "Token has been revoked"
  ELSE IF Verify(t, "JWT_REFRESH_SECRET") # "ok" THEN Verify(t, "JWT_REFRESH_SECRET")
  ELSE IF isAdminBlacklisted(t.sub) THEN "Admin tokens have been revoked"
  ELSE IF t.sub \notin DOMAIN admins THEN "Admin not found or inactive"
  ELSE IF admins[t.sub].isDeleted \/ admins[t.sub].isSuspended
    THEN "Admin not found or inactive"
  ELSE "ok"

AdminRefreshToken(t) ==
  LET op == "admin.refreshToken"
      tokens == generateTokens("admin", t.sub)
  IN
  IF AdminRefreshCheck(t) # "ok" THEN
    /\ resp' = Resp(op, 401, "Invalid or expired refresh token", 0, t, NoTokens)
    /\ UNCHANGED <<calls, now, storeUp, cfg, users, admins, issued, redisTokens,
                   redisIds, passwordReset, emailVerification, hist>>
  ELSE
    /\ CanIssuePair(tokens)
    /\ issued' = issued \cup PairSet(tokens)
    /\ resp' = Resp(op, 200, "Token refreshed successfully", t.sub, t, tokens)
    /\ UNCHANGED <<calls, now, storeUp, cfg, users, admins, redisTokens, redisIds,
                   passwordReset, emailVerification, hist>>

\* The blacklist writes of AdminAuthService.logout, in order; a write that
\* throws (store unreachable) abandons the rest.
AdminLogoutWrites(at, rt) ==
  IF ~Decodable(at) THEN redisTokens
  ELSE IF ~storeUp THEN redisTokens
  ELSE LET s1 == IF TTL(at) > 0 THEN SetEx(redisTokens, at, TTL(at)) ELSE redisTokens
       IN IF rt # NoToken /\ Decodable(rt) /\ TTL(rt) > 0
            THEN SetEx(s1, rt, TTL(rt)) ELSE s1

\* The outcome of the try block of logout.
AdminLogoutTry(at, rt) ==
  IF ~Decodable(at) THEN "Invalid access token"
  ELSE IF (TTL(at) > 0 \/ (Decodable(rt) /\ TTL(rt) > 0)) /\ ~storeUp
    THEN "blacklistToken failed"
  ELSE "ok"

\* The catch block logs and returns the same envelope.
AdminLogoutResponse_Rethrow(at, rt) ==
  IF AdminLogoutTry(at, rt) = "ok" THEN <<200, "Logout successful">>
  ELSE <<500, AdminLogoutTry(at, rt)>>

AdminLogoutResponse(at, rt) ==
  IF AdminLogoutTry(at, rt) = "ok" THEN <<200, "Logout successful">>
  ELSE <<200, "Logout successful">>

AdminLogout(at, rt) ==
  /\ redisTokens' = AdminLogoutWrites(at, rt)
  /\ resp' = Resp("admin.logout", AdminLogoutResponse(at, rt)[1],
                  AdminLogoutResponse(at, rt)[2], 0, at,
                  [accessToken |-> at, refreshToken |-> rt])
  /\ UNCHANGED <<calls, now, storeUp, cfg, users, admins, issued, redisIds,
                 passwordReset, emailVerification, hist>>

----------------------------------------------------------------------------
(* AdminService *)

\* The TTL that delete and toggleStatus('deactivate') hand to
\* blacklistAdminTokens.
BlanketTTL == parseExpiryToSeconds(cfg.refresh)

\* blacklistAdminTokens inside try/catch: a failed write is only logged.
BlacklistAdmin(id) ==
  IF storeUp THEN SetEx(redisIds, IdKey("admin", id), BlanketTTL) ELSE redisIds

\* removeAdminFromBlacklist inside try/catch: a failed delete is only logged.
UnblacklistAdmin(id) ==
  IF storeUp THEN {e \in redisIds : e.key # IdKey("admin", id)} ELSE redisIds

NewStatus(action) == IF action = "activate" THEN "ACTIVE" ELSE "DEACTIVATED"

\* toggleStatus: the rejection, or <<200, "ok">>.
ToggleStatusCheck(id, action, currentAdminId) ==
  IF action = "deactivate" /\ id = currentAdminId
    THEN <<400, "You cannot deactivate your own account">>
  ELSE IF id \notin DOMAIN admins THEN <<404, "Admin not found">>
  ELSE IF admins[id].isDeleted THEN <<404, "Admin not found">>
  ELSE IF action = "deactivate" /\ admins[id].isSuper
    THEN <<400, "Cannot deactivate super admin account.">>
  ELSE IF admins[id].status = NewStatus(action) THEN <<400, "Admin is already">>
  ELSE <<200, "ok">>

AdminToggleStatus(id, action, currentAdminId) ==
  LET op == "admin.toggleStatus"
      chk == ToggleStatusCheck(id, action, currentAdminId)
  IN
  IF chk[1] # 200 THEN
    /\ resp' = Resp(op, chk[1], chk[2], id, NoToken, NoTokens)
    /\ UNCHANGED <<calls, now, storeUp, cfg, users, admins, issued, redisTokens,
                   redisIds, passwordReset, emailVerification, hist>>
  ELSE
    /\ redisIds' = IF action = "deactivate" THEN BlacklistAdmin(id)
                   ELSE UnblacklistAdmin(id)
    /\ admins' = [admins EXCEPT ![id].status = NewStatus(action)]
    /\ resp' = Resp(op, 200, action, id, NoToken, NoTokens)
    /\ UNCHANGED <<calls, now, storeUp, cfg, users, issued, redisTokens,
                   passwordReset, emailVerification, hist>>

(* toggleStatus as the event loop runs it: the handler is suspended at each *)
(* await (findUnique, the blacklist call, update) and other requests run   *)
(* in between.                                                             *)

\* Up to the first await and the checks on the row it returned.
ToggleStatusFind(c, id, action, currentAdminId) ==
  LET op == "admin.toggleStatus"
      chk == ToggleStatusCheck(id, action, currentAdminId)
  IN
  /\ calls[c] = Idle
  /\ IF chk[1] # 200 THEN
       /\ resp' = [Resp(op, chk[1], chk[2], id, NoToken, NoTokens)
                     EXCEPT !.caller = currentAdminId]
       /\ UNCHANGED <<calls, now, storeUp, cfg, users, admins, issued, redisTokens,
                      redisIds, passwordReset, emailVerification, hist>>
     ELSE
       /\ calls' = [calls EXCEPT ![c] = [pc |-> "blacklist", id |-> id,
                                         action |-> action, seen |-> 0]]
       /\ resp' = Resp("await", 0, "", id, NoToken, NoTokens)
       /\ UNCHANGED <<now, storeUp, cfg, users, admins, issued, redisTokens,
                      redisIds, passwordReset, emailVerification, hist>>

\* blacklistAdminTokens or removeAdminFromBlacklist, inside its try/catch.
ToggleStatusBlacklist(c) ==
  /\ calls[c].pc = "blacklist"
  /\ redisIds' = IF calls[c].action = "deactivate" THEN BlacklistAdmin(calls[c].id)
                 ELSE UnblacklistAdmin(calls[c].id)
  /\ calls' = [calls EXCEPT ![c].pc = "update"]
  /\ resp' = Resp("await", 0, "", calls[c].id, NoToken, NoTokens)
  /\ UNCHANGED <<now, storeUp, cfg, users, admins, issued, redisTokens,
                 passwordReset, emailVerification, hist>>

\* prisma.admin.update with the status computed before the awaits, and the
\* response.
ToggleStatusUpdate(c) ==
  /\ calls[c].pc = "update"
  /\ admins' = [admins EXCEPT ![calls[c].id].status = NewStatus(calls[c].action)]
  /\ calls' = [calls EXCEPT ![c] = Idle]
  /\ resp' = Resp("admin.toggleStatus", 200, calls[c].action, calls[c].id,
                  NoToken, NoTokens)
  /\ UNCHANGED <<now, storeUp, cfg, users, issued, redisTokens, redisIds,
                 passwordReset, emailVerification, hist>>

DeleteCheck_NoSuperCheck(id, currentAdminId) ==
  IF id = currentAdminId THEN <<400, "You cannot delete your own account">>
  ELSE IF id \notin DOMAIN admins THEN <<404, "Admin not found">>
  ELSE IF admins[id].isDeleted THEN <<400, "Admin is already deleted">>
  ELSE <<200, "ok">>

\* delete: the rejection, or <<200, "ok">>.
DeleteCheck(id, currentAdminId) ==
  IF id = currentAdminId THEN <<400, "You cannot delete your own account">>
  ELSE IF id \notin DOMAIN admins THEN <<404, "Admin not found">>
  ELSE IF admins[id].isSuper THEN <<400, "Cannot delete super admin account.">>
  ELSE IF admins[id].isDeleted THEN <<400, "Admin is already deleted">>
  ELSE <<200, "ok">>

AdminDelete(id, currentAdminId) ==
  LET op == "admin.delete"
      chk == DeleteCheck(id, currentAdminId)
  IN
  IF chk[1] # 200 THEN
    /\ resp' = [Resp(op, chk[1], chk[2], id, NoToken, NoTokens)
                  EXCEPT !.caller = currentAdminId]
    /\ UNCHANGED <<calls, now, storeUp, cfg, users, admins, issued, redisTokens,
                   redisIds, passwordReset, emailVerification, hist>>
  ELSE
    /\ redisIds' = BlacklistAdmin(id)
    /\ admins' = [admins EXCEPT ![id].isDeleted = TRUE]
    /\ resp' = [Resp(op, 200, "Admin deleted successfully", id, NoToken, NoTokens)
                  EXCEPT !.caller = currentAdminId]
    /\ UNCHANGED <<calls, now, storeUp, cfg, users, issued, redisTokens,
                   passwordReset, emailVerification, hist>>

\* update: the role of the request, or the stored one when the body has none
\* ("absent"); the names are not modelled.
AdminUpdate(id, dto) ==
  LET op == "admin.update" IN
  IF id \notin DOMAIN admins \/ admins[id].isDeleted THEN
    /\ resp' = Resp(op, 404, "Admin not found", id, NoToken, NoTokens)
    /\ UNCHANGED <<calls, now, storeUp, cfg, users, admins, issued, redisTokens,
                   redisIds, passwordReset, emailVerification, hist>>
  ELSE
    /\ admins' = [admins EXCEPT ![id].role =
                    IF dto.role = "absent" THEN @ ELSE dto.role]
    /\ resp' = Resp(op, 200, "Admin updated successfully", id, NoToken, NoTokens)
    /\ UNCHANGED <<calls, now, storeUp, cfg, users, issued, redisTokens,
                   redisIds, passwordReset, emailVerification, hist>>

\* E-mail addresses no admin row holds yet, and the values of AdminRole.
NewAdmins == {3}
AdminRoles == {"ADMIN", "MODERATOR"}

\* The row prisma.admin.create writes: the password hashed, the role of
\* the request, every other column at its default.
NewAdmin(p, role) ==
  [status |-> "ACTIVE", isDeleted |-> FALSE, isSuspended |-> FALSE,
   isSuper |-> FALSE, role |-> role, password |-> Hash(p)]

\* create: the rejection, or <<201, "ok">>.  The e-mail of a soft-deleted
\* admin passes the check and then violates the unique index.
CreateCheck(dto) ==
  IF dto.email \in DOMAIN admins /\ ~admins[dto.email].isDeleted
    THEN <<409, "Email already in use">>
  ELSE IF dto.email \in DOMAIN admins THEN <<500, "Internal server error">>
  ELSE <<201, "ok">>

\* POST /admins: AdminAuthGuard with the roles of the route ('ADMIN'), then
\* AdminService.create.
AdminCreate(t, dto) ==
  LET op == "admin.create"
      guard == AdminCanActivateCheck(t, Roles({"ADMIN"}))
      caller == IF AuthenticateAdmin(t)[1] = 200 THEN t.sub ELSE 0
      chk == CreateCheck(dto)
  IN
  IF guard[1] # 200 THEN
    /\ resp' = [Resp(op, guard[1], guard[2], dto.email, t, NoTokens)
                  EXCEPT !.caller = caller, !.roles = Roles({"ADMIN"})]
    /\ UNCHANGED <<calls, now, storeUp, cfg, users, admins, issued, redisTokens,
                   redisIds, passwordReset, emailVerification, hist>>
  ELSE IF chk[1] # 201 THEN
    /\ resp' = [Resp(op, chk[1], chk[2], dto.email, t, NoTokens)
                  EXCEPT !.caller = caller, !.roles = Roles({"ADMIN"})]
    /\ UNCHANGED <<calls, now, storeUp, cfg, users, admins, issued, redisTokens,
                   redisIds, passwordReset, emailVerification, hist>>
  ELSE
    /\ admins' = admins @@ (dto.email :> NewAdmin(dto.password, dto.role))
    /\ resp' = [Resp(op, 201, "Admin created successfully", dto.email, t, NoTokens)
                  EXCEPT !.caller = caller, !.roles = Roles({"ADMIN"})]
    /\ UNCHANGED <<calls, now, storeUp, cfg, users, issued, redisTokens,
                   redisIds, passwordReset, emailVerification, hist>>

----------------------------------------------------------------------------
(* Password reset, user flow (UserAuthService) *)

UKey(e) == <<"USER", e>>
AKey(e) == <<"ADMIN", e>>

\* The history kept for the properties: a code compared and found wrong.
Guessed(k) == [hist EXCEPT ![k].guesses = @ + 1]

UserForgotPassword(e, code, emailOk) ==
  LET op == "user.forgotPassword" IN
  IF e \notin DOMAIN users THEN
    /\ resp' = Resp(op, 404, "Invalid email", 0, NoToken, NoTokens)
    /\ UNCHANGED <<calls, now, storeUp, cfg, users, admins, issued, redisTokens,
                   redisIds, passwordReset, emailVerification, hist>>
  ELSE
    /\ passwordReset' = [passwordReset EXCEPT ![UKey(e)] = Rec(code)]
    /\ hist' = [hist EXCEPT ![UKey(e)] = NoHist]
    /\ resp' = IF sendEmail(e, emailOk) = "throw"
                 THEN [InternalError(op) EXCEPT !.id = e, !.mail = "throw"]
                 ELSE [Resp(op, 200, "Password reset code sent to your email", e,
                            NoToken, NoTokens)
                         EXCEPT !.mail = sendEmail(e, emailOk)]
    /\ UNCHANGED <<calls, now, storeUp, cfg, users, admins, issued, redisTokens,
                   redisIds, emailVerification>>

\* verifyResetCode: the rejection, or "ok".
UserVerifyResetCodeCheck(e, code) ==
  IF e \notin DOMAIN users THEN <<404, "Invalid email">>
  ELSE IF passwordReset[UKey(e)] = NoRecord
    THEN <<400, "Please request a password reset first">>
  ELSE IF passwordReset[UKey(e)].expiresAt < now
    THEN <<400, "Password reset code expired">>
  ELSE IF passwordReset[UKey(e)].attempts >= MAX_PASSWORD_RESET_ATTEMPTS
    THEN <<400, "Too many failed attempts. Please request a new reset code.">>
  ELSE IF passwordReset[UKey(e)].code # code THEN <<400, "Invalid reset code">>
  ELSE <<200, "ok">>

\* The row of the reset record after verifyResetCode was rejected.
UserVerifyRejectedRow(e, msg) ==
  IF msg = "Invalid reset code"
    THEN [passwordReset[UKey(e)] EXCEPT !.attempts = @ + 1]
    ELSE passwordReset[UKey(e)]

UserVerifyResetCode(e, code) ==
  LET op == "user.verifyResetCode"
      chk == UserVerifyResetCodeCheck(e, code)
      resetToken == Token("user", "reset", 0, e, now + RESET_TOKEN_EXPIRY_SECONDS)
  IN
  IF chk[1] = 404 \/ chk[2] = "Please request a password reset first" THEN
    /\ resp' = Resp(op, chk[1], chk[2], 0, NoToken, NoTokens)
    /\ UNCHANGED <<calls, now, storeUp, cfg, users, admins, issued, redisTokens,
                   redisIds, passwordReset, emailVerification, hist>>
  ELSE IF chk[1] # 200 THEN
    /\ chk[2] = "Invalid reset code" => hist[UKey(e)].guesses < MaxGuesses
    /\ passwordReset' = [passwordReset EXCEPT ![UKey(e)] = UserVerifyRejectedRow(e, chk[2])]
    /\ hist' = IF chk[2] = "Invalid reset code" THEN Guessed(UKey(e)) ELSE hist
    /\ resp' = Resp(op, chk[1], chk[2], e, NoToken, NoTokens)
    /\ UNCHANGED <<calls, now, storeUp, cfg, users, admins, issued, redisTokens,
                   redisIds, emailVerification>>
  ELSE
    /\ Cardinality(issued) < MaxIssued
    /\ passwordReset' = [passwordReset EXCEPT ![UKey(e)].verifiedAt = TRUE]
    /\ hist' = [hist EXCEPT ![UKey(e)].verified = TRUE]
    /\ issued' = issued \cup {resetToken}
    /\ resp' = Resp(op, 200, "Reset code verified successfully", e, resetToken, NoTokens)
    /\ UNCHANGED <<calls, now, storeUp, cfg, users, admins, redisTokens, redisIds,
                   emailVerification>>

(* verifyResetCode as the event loop runs it: the handler is suspended at  *)
(* the await of the update, after it has read the record and compared the  *)
(* code.                                                                   *)

\* findUnique of the user and of the record, the checks and the comparison.
\* seen keeps passwordReset.attempts as this request read it.
UserVerifyResetCodeFind(c, e, code) ==
  LET op == "user.verifyResetCode"
      chk == UserVerifyResetCodeCheck(e, code)
  IN
  /\ calls[c] = Idle
  /\ IF chk[1] # 200 /\ chk[2] # "Invalid reset code" THEN
       /\ resp' = Resp(op, chk[1], chk[2],
                       IF chk[2] \in {"Invalid email",
                                      "Please request a password reset first"}
                         THEN 0 ELSE e,
                       NoToken, NoTokens)
       /\ UNCHANGED <<calls, now, storeUp, cfg, users, admins, issued, redisTokens,
                      redisIds, passwordReset, emailVerification, hist>>
     ELSE
       /\ chk[1] # 200 => hist[UKey(e)].guesses < MaxGuesses
       /\ hist' = IF chk[1] # 200 THEN Guessed(UKey(e)) ELSE hist
       /\ calls' = [calls EXCEPT ![c] =
                      [pc |-> "update", id |-> e,
                       action |-> IF chk[1] = 200 THEN "verified" ELSE "attempts",
                       seen |-> passwordReset[UKey(e)].attempts]]
       /\ resp' = Resp("await", 0, "", e, NoToken, NoTokens)
       /\ UNCHANGED <<now, storeUp, cfg, users, admins, issued, redisTokens,
                      redisIds, passwordReset, emailVerification>>

\* prisma.passwordReset.update: attempts becomes the value read plus one, or
\* verifiedAt is set and the reset token signed.
UserVerifyResetCodeUpdate(c) ==
  LET op == "user.verifyResetCode"
      e == calls[c].id
      resetToken == Token("user", "reset", 0, e, now + RESET_TOKEN_EXPIRY_SECONDS)
  IN
  /\ calls[c].pc = "update"
  /\ calls[c].action \in {"attempts", "verified"}
  /\ calls' = [calls EXCEPT ![c] = Idle]
  /\ IF calls[c].action = "attempts" THEN
       /\ passwordReset' = [passwordReset EXCEPT
                              ![UKey(e)].attempts = calls[c].seen + 1]
       /\ resp' = Resp(op, 400, "Invalid reset code", e, NoToken, NoTokens)
       /\ UNCHANGED <<now, storeUp, cfg, users, admins, issued, redisTokens,
                      redisIds, emailVerification, hist>>
     ELSE
       /\ Cardinality(issued) < MaxIssued
       /\ passwordReset' = [passwordReset EXCEPT ![UKey(e)].verifiedAt = TRUE]
       /\ hist' = [hist EXCEPT ![UKey(e)].verified = TRUE]
       /\ issued' = issued \cup {resetToken}
       /\ resp' = Resp(op, 200, "Reset code verified successfully", e, resetToken,
                       NoTokens)
       /\ UNCHANGED <<now, storeUp, cfg, users, admins, redisTokens, redisIds,
                      emailVerification>>

UserResetPasswordCheck_NoPurpose(t) ==
  IF Verify(t, "JWT_SECRET") # "ok" THEN <<401, "Invalid or expired reset token">>
  ELSE IF t.email \notin DOMAIN users THEN <<404, "Invalid reset token">>
  ELSE IF passwordReset[UKey(t.email)] = NoRecord
    THEN <<400, "Please request a password reset first">>
  ELSE IF ~passwordReset[UKey(t.email)].verifiedAt
    THEN <<400, "Please verify your reset code first">>
  ELSE IF passwordReset[UKey(t.email)].expiresAt < now
    THEN <<400, "Password reset code expired">>
  ELSE <<200, "ok">>

\* resetPassword: the rejection, or "ok".
UserResetPasswordCheck(t) ==
  IF Verify(t, "JWT_SECRET") # "ok" THEN <<401, "Invalid or expired reset token">>
  ELSE IF t.typ # "reset" THEN <<401, "Invalid reset token">>
  ELSE IF t.email \notin DOMAIN users THEN <<404, "Invalid reset token">>
  ELSE IF passwordReset[UKey(t.email)] = NoRecord
    THEN <<400, "Please request a password reset first">>
  ELSE IF ~passwordReset[UKey(t.email)].verifiedAt
    THEN <<400, "Please verify your reset code first">>
  ELSE IF passwordReset[UKey(t.email)].expiresAt < now
    THEN <<400, "Password reset code expired">>
  ELSE <<200, "ok">>

UserResetPassword(t, newPassword) ==
  LET op == "user.resetPassword"
      chk == UserResetPasswordCheck(t)
  IN
  IF chk[1] # 200 THEN
    /\ resp' = Resp(op, chk[1], chk[2], 0, t, NoTokens)
    /\ UNCHANGED <<calls, now, storeUp, cfg, users, admins, issued, redisTokens,
                   redisIds, passwordReset, emailVerification, hist>>
  ELSE
    /\ users' = [users EXCEPT ![t.email].password = Hash(newPassword)]
    /\ passwordReset' = [passwordReset EXCEPT ![UKey(t.email)] = NoRecord]
    /\ resp' = Resp(op, 200, "Password reset successful", t.email, t, NoTokens)
    /\ UNCHANGED <<calls, now, storeUp, cfg, admins, issued, redisTokens, redisIds,
                   emailVerification, hist>>

----------------------------------------------------------------------------
(* Password reset, admin flow (AdminAuthService) *)

AdminForgotPassword(e, code, emailOk) ==
  LET op == "admin.forgotPassword" IN
  IF e \notin DOMAIN admins THEN
    /\ resp' = Resp(op, 404, "Admin not found", 0, NoToken, NoTokens)
    /\ UNCHANGED <<calls, now, storeUp, cfg, users, admins, issued, redisTokens,
                   redisIds, passwordReset, emailVerification, hist>>
  ELSE
    \* upsert: create, or update of code, expiresAt and attempts
    /\ passwordReset' = [passwordReset EXCEPT ![AKey(e)] =
                           [Rec(code) EXCEPT !.verifiedAt = passwordReset[AKey(e)].verifiedAt]]
    /\ hist' = [hist EXCEPT ![AKey(e)] = NoHist]
    /\ resp' = IF sendEmail(AdminEmail(e), emailOk) = "throw"
                 THEN [Resp(op, 400, "Failed to send reset code email", e,
                            NoToken, NoTokens)
                         EXCEPT !.mail = "throw"]
                 ELSE [Resp(op, 200, "Password reset code sent to email", e,
                            NoToken, NoTokens)
                         EXCEPT !.mail = sendEmail(AdminEmail(e), emailOk)]
    /\ UNCHANGED <<calls, now, storeUp, cfg, users, admins, issued, redisTokens,
                   redisIds, emailVerification>>

\* verifyCode: the rejection, or "ok".
AdminVerifyCodeCheck(e, code) ==
  IF passwordReset[AKey(e)] = NoRecord
    THEN <<400, "No reset request found for this email">>
  ELSE IF now > passwordReset[AKey(e)].expiresAt THEN <<400, "Reset code expired">>
  ELSE IF passwordReset[AKey(e)].attempts >= MAX_PASSWORD_RESET_ATTEMPTS
    THEN <<400, "Too many failed attempts">>
  ELSE IF passwordReset[AKey(e)].code # code THEN <<400, "Invalid reset code">>
  ELSE <<200, "ok">>

\* The row of the reset record after verifyCode was rejected.
AdminVerifyRejectedRow(e, msg) ==
  IF msg \in {"Reset code expired", "Too many failed attempts"} THEN NoRecord
  ELSE IF msg = "Invalid reset code"
    THEN [passwordReset[AKey(e)] EXCEPT !.attempts = @ + 1]
  ELSE passwordReset[AKey(e)]

AdminVerifyCode(e, code) ==
  LET op == "admin.verifyCode"
      chk == AdminVerifyCodeCheck(e, code)
  IN
  IF chk[1] # 200 THEN
    /\ chk[2] = "Invalid reset code" => hist[AKey(e)].guesses < MaxGuesses
    /\ passwordReset' = [passwordReset EXCEPT ![AKey(e)] = AdminVerifyRejectedRow(e, chk[2])]
    /\ hist' = IF chk[2] = "Invalid reset code" THEN Guessed(AKey(e)) ELSE hist
    /\ resp' = Resp(op, chk[1], chk[2], e, NoToken, NoTokens)
    /\ UNCHANGED <<calls, now, storeUp, cfg, users, admins, issued, redisTokens,
                   redisIds, emailVerification>>
  ELSE
    /\ hist' = [hist EXCEPT ![AKey(e)].verified = TRUE]
    /\ resp' = Resp(op, 200, "Code verified successfully", e, NoToken, NoTokens)
    /\ UNCHANGED <<calls, now, storeUp, cfg, users, admins, issued, redisTokens,
                   redisIds, passwordReset, emailVerification>>

(* verifyCode as the event loop runs it: suspended at the await of the     *)
(* delete or of the update that follows the checks.                        *)

\* findUnique of the record, the checks and the comparison.
AdminVerifyCodeFind(c, e, code) ==
  LET op == "admin.verifyCode"
      chk == AdminVerifyCodeCheck(e, code)
  IN
  /\ calls[c] = Idle
  /\ IF chk[2] = "No reset request found for this email" THEN
       /\ resp' = Resp(op, chk[1], chk[2], e, NoToken, NoTokens)
       /\ UNCHANGED <<calls, now, storeUp, cfg, users, admins, issued, redisTokens,
                      redisIds, passwordReset, emailVerification, hist>>
     ELSE IF chk[1] = 200 THEN
       /\ hist' = [hist EXCEPT ![AKey(e)].verified = TRUE]
       /\ resp' = Resp(op, 200, "Code verified successfully", e, NoToken, NoTokens)
       /\ UNCHANGED <<calls, now, storeUp, cfg, users, admins, issued, redisTokens,
                      redisIds, passwordReset, emailVerification>>
     ELSE
       /\ chk[2] = "Invalid reset code" => hist[AKey(e)].guesses < MaxGuesses
       /\ hist' = IF chk[2] = "Invalid reset code" THEN Guessed(AKey(e)) ELSE hist
       /\ calls' = [calls EXCEPT ![c] =
                      [pc |-> "write", id |-> e, action |-> chk[2],
                       seen |-> passwordReset[AKey(e)].attempts]]
       /\ resp' = Resp("await", 0, "", e, NoToken, NoTokens)
       /\ UNCHANGED <<now, storeUp, cfg, users, admins, issued, redisTokens,
                      redisIds, passwordReset, emailVerification>>

\* prisma.passwordReset.delete or update, then the rejection.  Both throw
\* when another request has removed the row in the meantime.
AdminVerifyCodeWrite(c) ==
  LET op == "admin.verifyCode"
      e == calls[c].id
  IN
  /\ calls[c].pc = "write"
  /\ calls' = [calls EXCEPT ![c] = Idle]
  /\ IF passwordReset[AKey(e)] = NoRecord THEN
       /\ resp' = [InternalError(op) EXCEPT !.id = e]
       /\ UNCHANGED passwordReset
     ELSE IF calls[c].action = "Invalid reset code" THEN
       /\ passwordReset' = [passwordReset EXCEPT
                              ![AKey(e)].attempts = calls[c].seen + 1]
       /\ resp' = Resp(op, 400, calls[c].action, e, NoToken, NoTokens)
     ELSE
       /\ passwordReset' = [passwordReset EXCEPT ![AKey(e)] = NoRecord]
       /\ resp' = Resp(op, 400, calls[c].action, e, NoToken, NoTokens)
  /\ UNCHANGED <<now, storeUp, cfg, users, admins, issued, redisTokens,
                 redisIds, emailVerification, hist>>

\* resetPassword: the rejection, or "ok".
AdminResetPasswordCheck(e, code) ==
  IF passwordReset[AKey(e)] = NoRecord
    THEN <<400, "No reset request found for this email">>
  ELSE IF now > passwordReset[AKey(e)].expiresAt THEN <<400, "Reset code expired">>
  ELSE IF passwordReset[AKey(e)].code # code THEN <<400, "Invalid reset code">>
  ELSE <<200, "ok">>

AdminResetPassword(e, code, newPassword) ==
  LET op == "admin.resetPassword"
      chk == AdminResetPasswordCheck(e, code)
  IN
  IF chk[1] # 200 THEN
    /\ chk[2] = "Invalid reset code" => hist[AKey(e)].guesses < MaxGuesses
    /\ passwordReset' = IF chk[2] = "Reset code expired"
                          THEN [passwordReset EXCEPT ![AKey(e)] = NoRecord]
                          ELSE passwordReset
    /\ hist' = IF chk[2] = "Invalid reset code" THEN Guessed(AKey(e)) ELSE hist
    /\ resp' = Resp(op, chk[1], chk[2], e, NoToken, NoTokens)
    /\ UNCHANGED <<calls, now, storeUp, cfg, users, admins, issued, redisTokens,
                   redisIds, emailVerification>>
  ELSE
    /\ admins' = [admins EXCEPT ![e].password = Hash(newPassword)]
    /\ passwordReset' = [passwordReset EXCEPT ![AKey(e)] = NoRecord]
    /\ resp' = Resp(op, 200, "Password reset successfully", e, NoToken, NoTokens)
    /\ UNCHANGED <<calls, now, storeUp, cfg, users, issued, redisTokens, redisIds,
                   emailVerification, hist>>

----------------------------------------------------------------------------
(* TokenBlacklistService, identity-level entries.  A write that cannot     *)
(* reach the store is logged and rethrown to the caller.                   *)

blacklistUserTokens_AdminKey(userId, expiresInSeconds) ==
  /\ redisIds' = IF storeUp
                   THEN SetEx(redisIds, IdKey("admin", userId), expiresInSeconds)
                   ELSE redisIds
  /\ resp' = Resp("blacklistUserTokens", IF storeUp THEN 200 ELSE 500, "",
                  userId, NoToken, NoTokens)
  /\ UNCHANGED <<calls, now, storeUp, cfg, users, admins, issued, redisTokens,
                 passwordReset, emailVerification, hist>>

blacklistUserTokens(userId, expiresInSeconds) ==
  /\ redisIds' = IF storeUp
                   THEN SetEx(redisIds, IdKey("user", userId), expiresInSeconds)
                   ELSE redisIds
  /\ resp' = Resp("blacklistUserTokens", IF storeUp THEN 200 ELSE 500, "",
                  userId, NoToken, NoTokens)
  /\ UNCHANGED <<calls, now, storeUp, cfg, users, admins, issued, redisTokens,
                 passwordReset, emailVerification, hist>>

removeUserFromBlacklist(userId) ==
  /\ redisIds' = IF storeUp
                   THEN {e \in redisIds : e.key # IdKey("user", userId)}
                   ELSE redisIds
  /\ resp' = Resp("removeUserFromBlacklist", IF storeUp THEN 200 ELSE 500, "",
                  userId, NoToken, NoTokens)
  /\ UNCHANGED <<calls, now, storeUp, cfg, users, admins, issued, redisTokens,
                 passwordReset, emailVerification, hist>>

blacklistAdminTokens(adminId, expiresInSeconds) ==
  /\ redisIds' = IF storeUp
                   THEN SetEx(redisIds, IdKey("admin", adminId), expiresInSeconds)
                   ELSE redisIds
  /\ resp' = Resp("blacklistAdminTokens", IF storeUp THEN 200 ELSE 500, "",
                  adminId, NoToken, NoTokens)
  /\ UNCHANGED <<calls, now, storeUp, cfg, users, admins, issued, redisTokens,
                 passwordReset, emailVerification, hist>>

removeAdminFromBlacklist(adminId) ==
  /\ redisIds' = IF storeUp
                   THEN {e \in redisIds : e.key # IdKey("admin", adminId)}
                   ELSE redisIds
  /\ resp' = Resp("removeAdminFromBlacklist", IF storeUp THEN 200 ELSE 500, "",
                  adminId, NoToken, NoTokens)
  /\ UNCHANGED <<calls, now, storeUp, cfg, users, admins, issued, redisTokens,
                 passwordReset, emailVerification, hist>>

----------------------------------------------------------------------------
(* Environment: the Redis connection drops or comes back. *)

StoreFlip ==
  /\ storeUp' = ~storeUp
  /\ resp' = Resp("store", 0, "", 0, NoToken, NoTokens)
  /\ UNCHANGED <<calls, now, cfg, users, admins, issued, redisTokens, redisIds,
                 passwordReset, emailVerification, hist>>

----------------------------------------------------------------------------
(* Sessions of users and admins: login, guards, refresh, logout *)

LoginIds == {0, 1, 2}

NextSession ==
  \/ Tick
  \/ StoreFlip
  \/ \E e \in LoginIds, p \in Passwords, c \in Codes : UserLogin(e, p, c, TRUE)
  \/ \E e \in LoginIds, p \in Passwords : AdminLogin(e, p)
  \/ \E t \in Presentable : UserGuardBearer(t)
  \/ \E t \in Presentable : AdminGuard(t)
  \/ \E t \in Presentable : UserRefreshToken(t)
  \/ \E t \in Presentable : AdminRefreshToken(t)
  \/ \E at \in Presentable, rt \in Presentable \ {NoToken} : UserLogout(at, rt)
  \/ \E at \in Presentable, rt \in Presentable : AdminLogout(at, rt)

Spec == InitSession /\ [][NextSession]_vars

(* Users of every status: both paths of the guard, login, verification *)

NextUser ==
  \/ Tick
  \/ \E t \in Presentable : UserGuardBearer(t)
  \/ \E e \in Users \cup {0}, p \in Passwords : UserGuardBasic(e, p)
  \/ \E e \in Users \cup {0}, p \in Passwords, c \in Codes, ok \in BOOLEAN :
       UserLogin(e, p, c, ok)
  \/ \E e \in Users \cup {0}, c \in Codes : UserVerifyEmail(e, c)
  \/ \E t \in Presentable : UserRefreshToken(t)

SpecUser == InitUser /\ [][NextUser]_vars

(* Administration: status changes and deletion of admins *)

NextAdmin ==
  \/ Tick
  \/ StoreFlip
  \/ \E t \in Presentable : AdminGuard(t)
  \/ \E e \in Admins \cup {0}, p \in Passwords : AdminLogin(e, p)
  \/ \E t \in Presentable : AdminRefreshToken(t)
  \/ \E id \in Admins, action \in {"activate", "deactivate"}, cur \in Admins :
       AdminToggleStatus(id, action, cur)
  \/ \E id \in Admins, cur \in Admins : AdminDelete(id, cur)

SpecAdmin == InitAdmin /\ [][NextAdmin]_vars

(* Password reset flow of the users *)

NextResetUser ==
  \/ TickOtp
  \/ \E e \in Users \cup {0}, c \in Codes, ok \in BOOLEAN : UserForgotPassword(e, c, ok)
  \/ \E e \in Users \cup {0}, c \in Codes : UserVerifyResetCode(e, c)
  \/ \E t \in Presentable \ {NoToken}, p \in Passwords : UserResetPassword(t, p)

SpecResetUser == InitReset /\ [][NextResetUser]_vars

(* Password reset flow of the admins *)

ResetAdmins == {2}

NextResetAdmin ==
  \/ TickOtp
  \/ \E e \in ResetAdmins \cup {0}, c \in Codes, ok \in BOOLEAN :
       AdminForgotPassword(e, c, ok)
  \/ \E e \in ResetAdmins, c \in Codes : AdminVerifyCode(e, c)
  \/ \E e \in ResetAdmins, c \in Codes, p \in Passwords : AdminResetPassword(e, c, p)

SpecResetAdmin == InitReset /\ [][NextResetAdmin]_vars

(* Identity-level revocation: the blacklist service called for users and   *)
(* admins, and the refresh flows that consult it                           *)

NextRevoke ==
  \/ Tick
  \/ StoreFlip
  \/ \E e \in Users, p \in Passwords, c \in Codes : UserLogin(e, p, c, TRUE)
  \/ \E e \in Admins, p \in Passwords : AdminLogin(e, p)
  \/ \E t \in Presentable : UserRefreshToken(t)
  \/ \E t \in Presentable : AdminRefreshToken(t)
  \/ \E id \in Users : blacklistUserTokens(id, BlanketTTL)
  \/ \E id \in Users : removeUserFromBlacklist(id)
  \/ \E id \in Admins : blacklistAdminTokens(id, BlanketTTL)
  \/ \E id \in Admins : removeAdminFromBlacklist(id)

SpecRevoke == InitSession /\ [][NextRevoke]_vars

(* Endpoints behind the guards: authentication, then the role check *)

RoleSets == {NoRoles, Roles({}), Roles({"USER"}), Roles({"ADMIN"}),
             Roles({"ADMIN", "MODERATOR"})}

\* The seeded super admin (admin 1) and an admin created through POST
\* /admins, who has isSuper = false and the role of that request (admin 2).
InitAuthz ==
  /\ now = 0
  /\ storeUp = TRUE
  /\ \E b \in BOOLEAN :
       cfg = [access |-> Exp(1, "s"), refresh |-> Exp(2, "s"), basicAuth |-> b]
  /\ users = [u \in Users |->
                [status |-> "ACTIVE", isDeleted |-> FALSE, emailVerified |-> TRUE,
                 password |-> Hash("pw0"), role |-> "USER"]]
  /\ \E r \in {"ADMIN", "MODERATOR"} :
       admins = [a \in Admins |->
                  [status |-> "ACTIVE", isDeleted |-> FALSE, isSuspended |-> FALSE,
                   isSuper |-> (a = 1),
                   role |-> IF a = 1 THEN "ADMIN" ELSE r,
                   password |-> IF a = 1 THEN Hash("pw1") ELSE Hash("pw0")]]
  /\ issued = {}
  /\ redisTokens = {}
  /\ redisIds = {}
  /\ passwordReset = [k \in ResetKeys |-> NoRecord]
  /\ hist = [k \in HistKeys |-> NoHist]
  /\ emailVerification = [u \in Users \cup NewUsers |-> NoRecord]
  /\ resp = Resp("init", 0, "", 0, NoToken, NoTokens)
  /\ calls = [c \in Calls |-> Idle]

NextAuthz ==
  \/ Tick
  \/ \E e \in LoginIds, p \in Passwords, c \in Codes : UserLogin(e, p, c, TRUE)
  \/ \E e \in LoginIds, p \in Passwords : AdminLogin(e, p)
  \/ \E t \in Presentable, rs \in RoleSets : UserCanActivate(t, rs)
  \/ \E e \in Users \cup {0}, p \in Passwords, rs \in RoleSets :
       UserCanActivateBasic(e, p, rs)
  \/ \E t \in Presentable, rs \in RoleSets : AdminCanActivate(t, rs)

SpecAuthz == InitAuthz /\ [][NextAuthz]_vars

(* Administration of the admin table: creation and deletion behind the guard *)

NextCreate ==
  \/ Tick
  \/ \E e \in LoginIds, p \in Passwords : AdminLogin(e, p)
  \/ \E t \in Presentable, e \in Admins \cup NewAdmins, r \in AdminRoles :
       AdminCreate(t, [email |-> e, password |-> "pw0", role |-> r])
  \/ \E id \in Admins \cup NewAdmins, cur \in Admins : AdminDelete(id, cur)

SpecCreate == InitAuthz /\ [][NextCreate]_vars

(* Status changes of admins requested at the same time.  The refresh       *)
(* lifetime is longer than the run, so that no blanket entry lapses.       *)

InitToggle == InitWith({<<Exp(2, "s"), Exp(1, "m")>>}, {FALSE}, ActiveShape, {TRUE}, {FALSE})

NextToggle ==
  \/ Tick
  \/ \E c \in Calls, id \in Admins, action \in {"activate", "deactivate"},
        cur \in Admins :
       ToggleStatusFind(c, id, action, cur)
  \/ \E c \in Calls : ToggleStatusBlacklist(c)
  \/ \E c \in Calls : ToggleStatusUpdate(c)

SpecToggle == InitToggle /\ [][NextToggle]_vars

\* The one code the flows below send.
MailCodes == {"1111"}

(* Reset codes verified at the same time, for a user and for an admin *)

VerifyCalls == {1, 2}

\* The code sent is "1111"; the requests carry it or a wrong one.  All of
\* it happens within one second, long before a code expires.
NextVerify ==
  \/ \E e \in Users, c \in MailCodes : UserForgotPassword(e, c, TRUE)
  \/ \E e \in ResetAdmins, c \in MailCodes : AdminForgotPassword(e, c, TRUE)
  \/ \E c \in VerifyCalls, e \in Users \cup {0}, code \in Codes :
       UserVerifyResetCodeFind(c, e, code)
  \/ \E c \in VerifyCalls : UserVerifyResetCodeUpdate(c)
  \/ \E c \in VerifyCalls, e \in ResetAdmins, code \in Codes :
       AdminVerifyCodeFind(c, e, code)
  \/ \E c \in VerifyCalls : AdminVerifyCodeWrite(c)

SpecVerify == InitReset /\ [][NextVerify]_vars

(* Every token signed with JWT_SECRET, presented wherever one is verified *)

NextPurpose ==
  \/ Tick
  \/ \E e \in Users, p \in Passwords, c \in MailCodes : UserLogin(e, p, c, TRUE)
  \/ \E e \in Admins, p \in Passwords : AdminLogin(e, p)
  \/ \E e \in Users, c \in MailCodes : UserForgotPassword(e, c, TRUE)
  \/ \E e \in Users, c \in Codes : UserVerifyResetCode(e, c)
  \/ \E t \in Presentable \ {NoToken}, p \in Passwords : UserResetPassword(t, p)
  \/ \E t \in Presentable : UserGuardBearer(t)
  \/ \E t \in Presentable : AdminGuard(t)

SpecPurpose == InitReset /\ [][NextPurpose]_vars

(* Role changes of admins, and endpoints reached with older tokens *)

NextRole ==
  \/ Tick
  \/ \E e \in Admins, p \in Passwords : AdminLogin(e, p)
  \/ \E id \in Admins \cup {0}, r \in AdminRoles \cup {"absent"} :
       AdminUpdate(id, [role |-> r])
  \/ \E t \in Presentable, rs \in RoleSets : AdminCanActivate(t, rs)
  \/ \E t \in Presentable : AdminRefreshToken(t)

SpecRole == InitAuthz /\ [][NextRole]_vars

(* Login, registration and the flows that send an e-mail *)

InitLogin == InitWith({<<Exp(1, "s"), Exp(2, "s")>>}, {FALSE}, UserShapes, BOOLEAN, BOOLEAN)

NextLogin ==
  \/ Tick
  \/ \E e \in LoginIds, p \in Passwords, c \in MailCodes, ok \in BOOLEAN :
       UserLogin(e, p, c, ok)
  \/ \E e \in LoginIds, p \in Passwords : AdminLogin(e, p)
  \/ \E e \in Users \cup NewUsers, p \in Passwords, c \in MailCodes, ok \in BOOLEAN :
       register(e, p, c, ok)
  \/ \E e \in LoginIds, c \in MailCodes, ok \in BOOLEAN : resendVerification(e, c, ok)

SpecLogin == InitLogin /\ [][NextLogin]_vars

(* Every flow that hands an e-mail to EmailService *)

InitMail == InitWith({<<Exp(1, "s"), Exp(2, "s")>>}, {FALSE}, UserShapes, BOOLEAN, {FALSE})

NextMail ==
  \/ Tick
  \/ \E e \in Users, p \in Passwords, c \in MailCodes, ok \in BOOLEAN :
       UserLogin(e, p, c, ok)
  \/ \E e \in Users \cup NewUsers, p \in Passwords, c \in MailCodes, ok \in BOOLEAN :
       register(e, p, c, ok)
  \/ \E e \in LoginIds, c \in MailCodes, ok \in BOOLEAN : resendVerification(e, c, ok)
  \/ \E e \in Users \cup {0}, c \in MailCodes, ok \in BOOLEAN :
       UserForgotPassword(e, c, ok)
  \/ \E e \in ResetAdmins \cup {0}, c \in MailCodes, ok \in BOOLEAN :
       AdminForgotPassword(e, c, ok)

SpecMail == InitMail /\ [][NextMail]_vars

----------------------------------------------------------------------------
(* Properties *)

GuardOps == {"user.guard.bearer", "admin.guard"}
RefreshOps == {"user.refreshToken", "admin.refreshToken"}
LogoutOps == {"user.logout", "admin.logout"}

Blacklisted(t) == \E e \in redisTokens : e.key = t /\ e.until > now

\* C1: the user guard, on the Bearer and on the Basic path, attaches req.user
\* only for a user record with status ACTIVE and isDeleted = false.
C1_UserGuardOnlyActive ==
  (resp.op \in {"user.guard.bearer", "user.guard.basic"} /\ resp.status = 200)
    => /\ resp.id \in Users
       /\ users[resp.id].status = "ACTIVE"
       /\ ~users[resp.id].isDeleted

\* A verified, unexpired access token of a user who is not active or is
\* deleted has just been rejected by the guard.
C1_Witness ==
  /\ resp.op = "user.guard.bearer"
  /\ resp.status = 401
  /\ Verify(resp.tok, "JWT_SECRET") = "ok"
  /\ resp.tok.sub \in Users
  /\ (users[resp.tok.sub].status # "ACTIVE" \/ users[resp.tok.sub].isDeleted)

\* C2: an admin whose status is not ACTIVE is never authenticated by the
\* admin guard and never issued a token pair by login or refreshToken.
C2_OnlyActiveAdmins ==
  (resp.op \in {"admin.guard", "admin.login", "admin.refreshToken"}
     /\ resp.status = 200 /\ resp.id \in Admins)
    => admins[resp.id].status = "ACTIVE"

\* C3: with the store reachable, a token whose string is in the store is
\* rejected by both guards as revoked and by both refresh flows.
C3_RevokedTokenRejected ==
  /\ (resp.op \in GuardOps /\ storeUp /\ Blacklisted(resp.tok))
       => (resp.status = 401 /\ resp.msg = "Token has been revoked.")
  /\ (resp.op \in RefreshOps /\ storeUp /\ Blacklisted(resp.tok))
       => (resp.status = 401 /\ resp.tokens = NoTokens)

\* A blacklisted token that still verifies has just been presented to the
\* admin guard.
C3_Witness ==
  /\ resp.op = "admin.guard"
  /\ storeUp
  /\ Blacklisted(resp.tok)
  /\ Verify(resp.tok, "JWT_SECRET") = "ok"

\* C4: after a logout with the store reachable every presented token that
\* is still unexpired has a blacklist entry that lasts as long as the token.
C4_LogoutBlacklistsUnexpired ==
  (resp.op \in LogoutOps /\ storeUp)
    => \A t \in PairSet(resp.tokens) \cap issued :
         t.exp > now => \E e \in redisTokens : e.key = t /\ e.until >= t.exp

C6_ReadsFailOpen ==
  /\ (resp.op = "user.guard.bearer" /\ ~storeUp
        /\ Verify(resp.tok, "JWT_SECRET") = "ok" /\ resp.tok.sub \in Users
        /\ users[resp.tok.sub].status = "ACTIVE" /\ ~users[resp.tok.sub].isDeleted)
       => resp.status = 200
  /\ (resp.op = "admin.guard" /\ ~storeUp
        /\ Verify(resp.tok, "JWT_SECRET") = "ok" /\ resp.tok.sub \in Admins
        /\ ~admins[resp.tok.sub].isDeleted /\ ~admins[resp.tok.sub].isSuspended)
       => resp.status = 200
  /\ (resp.op = "user.refreshToken" /\ ~storeUp
        /\ Verify(resp.tok, "JWT_REFRESH_SECRET") = "ok" /\ resp.tok.sub \in Users
        /\ users[resp.tok.sub].status = "ACTIVE" /\ ~users[resp.tok.sub].isDeleted)
       => resp.status = 200
  /\ (resp.op = "admin.refreshToken" /\ ~storeUp
        /\ Verify(resp.tok, "JWT_REFRESH_SECRET") = "ok" /\ resp.tok.sub \in Admins
        /\ ~admins[resp.tok.sub].isDeleted /\ ~admins[resp.tok.sub].isSuspended)
       => resp.status = 200

\* A token that sits in the blacklist is accepted by the user guard while
\* the store cannot be reached.
C6_Witness ==
  /\ resp.op = "user.guard.bearer"
  /\ ~storeUp
  /\ Blacklisted(resp.tok)
  /\ resp.status = 200

\* C7: the TTL of the blanket revocation written by delete and by
\* toggleStatus('deactivate') covers every token the admin holds.
C7_BlanketCoversEveryToken ==
  (resp.op \in {"admin.toggleStatus", "admin.delete"} /\ resp.status = 200
     /\ resp.msg \in {"deactivate", "Admin deleted successfully"} /\ storeUp)
    => \A t \in issued :
         (t.kind = "admin" /\ t.sub = resp.id) => t.exp <= now + BlanketTTL

\* C8: at most MAX_PASSWORD_RESET_ATTEMPTS mismatching codes are compared
\* against one issued reset code, whichever operation compares them.
C8_AtMostThreeGuesses ==
  \A k \in ResetKeys : hist[k].guesses <= MAX_PASSWORD_RESET_ATTEMPTS

\* C9: resetPassword changes the password only after the code of the
\* current reset record was verified (verifyResetCode / verifyCode).
C9_ResetRequiresVerification ==
  /\ (resp.op = "user.resetPassword" /\ resp.status = 200)
       => hist[UKey(resp.id)].verified
  /\ (resp.op = "admin.resetPassword" /\ resp.status = 200)
       => hist[AKey(resp.id)].verified

\* C10: a verify call rejected for too many attempts or for an expired code
\* leaves no reset record behind, and forgotPassword leaves a fresh record.
C10_RejectedVerifyDeletesRecord ==
  /\ (resp.op = "user.verifyResetCode"
        /\ resp.msg \in {"Too many failed attempts. Please request a new reset code.",
                         "Password reset code expired"})
       => passwordReset[UKey(resp.id)] = NoRecord
  /\ (resp.op = "admin.verifyCode"
        /\ resp.msg \in {"Too many failed attempts", "Reset code expired"})
       => passwordReset[AKey(resp.id)] = NoRecord
  /\ (resp.op = "user.forgotPassword" /\ resp.id \in Users)
       => (passwordReset[UKey(resp.id)] # NoRecord
             /\ passwordReset[UKey(resp.id)].attempts = 0)
  /\ (resp.op = "admin.forgotPassword" /\ resp.id \in Admins)
       => (passwordReset[AKey(resp.id)] # NoRecord
             /\ passwordReset[AKey(resp.id)].attempts = 0)

\* C11: with the store reachable, a refresh token that verifies and is not
\* itself blacklisted, presented while its subject has an identity-level
\* entry in the namespace of the flow, is rejected with 401 and the message
\* 'User tokens have been revoked' / 'Admin tokens have been revoked'.
C11_RefreshRevokedMessage ==
  /\ (resp.op = "user.refreshToken" /\ storeUp /\ ~Blacklisted(resp.tok)
        /\ Verify(resp.tok, "JWT_REFRESH_SECRET") = "ok"
        /\ RedisGet(redisIds, IdKey("user", resp.tok.sub)))
       => (resp.status = 401 /\ resp.msg = "User tokens have been revoked")
  /\ (resp.op = "admin.refreshToken" /\ storeUp /\ ~Blacklisted(resp.tok)
        /\ Verify(resp.tok, "JWT_REFRESH_SECRET") = "ok"
        /\ RedisGet(redisIds, IdKey("admin", resp.tok.sub)))
       => (resp.status = 401 /\ resp.msg = "Admin tokens have been revoked")

\* C12: a successful refreshToken (user or admin) returns a pair signed for
\* the subject of the presented token, writes nothing to the revocation
\* store, and the presented refresh token is still accepted right after it.
C12_RefreshKeepsOldToken ==
  [][(resp'.op \in RefreshOps /\ resp'.status = 200)
       => /\ redisTokens' = redisTokens
          /\ redisIds' = redisIds
          /\ PairSet(resp'.tokens) \subseteq issued'
          /\ resp'.tokens.refreshToken.typ = "refresh"
          /\ resp'.tokens.refreshToken.sub = resp'.tok.sub
          /\ resp'.tokens.refreshToken.exp = now + SignLifetime(cfg.refresh)
          /\ (resp'.op = "user.refreshToken" => (UserRefreshCheck(resp.tok) = "ok")')
          /\ (resp'.op = "admin.refreshToken" => (AdminRefreshCheck(resp.tok) = "ok")')
    ]_vars

\* A refresh token has just been exchanged for a pair while the store is
\* reachable, and it is neither expired nor blacklisted afterwards.
C12_Witness ==
  /\ resp.op = "user.refreshToken"
  /\ resp.status = 200
  /\ storeUp
  /\ resp.tok \in issued
  /\ resp.tokens.accessToken \in issued
  /\ ~Blacklisted(resp.tok)

\* C13: both guards, after authentication: with a non-empty declared role
\* set an identity whose role is not a member is rejected with 401
\* 'Insufficient permissions'; with an empty or absent set it is allowed.
C13_RoleCheck ==
  /\ (resp.op \in {"user.canActivate", "user.canActivate.basic"} /\ resp.id \in Users)
       => IF resp.roles.declared /\ resp.roles.roles # {}
               /\ users[resp.id].role \notin resp.roles.roles
            THEN resp.status = 401 /\ resp.msg = "Insufficient permissions."
            ELSE resp.status = 200
  /\ (resp.op = "admin.canActivate" /\ resp.id \in DOMAIN admins)
       => IF resp.roles.declared /\ resp.roles.roles # {}
               /\ admins[resp.id].role \notin resp.roles.roles
            THEN resp.status = 401 /\ resp.msg = "Insufficient permissions"
            ELSE resp.status = 200

\* A MODERATOR admin who is not super has just been turned away from an
\* ADMIN-only endpoint with a token that authenticates.
C13_Witness ==
  /\ resp.op = "admin.canActivate"
  /\ resp.roles = Roles({"ADMIN"})
  /\ AuthenticateAdmin(resp.tok)[1] = 200
  /\ admins[resp.tok.sub].role = "MODERATOR"
  /\ ~admins[resp.tok.sub].isSuper
  /\ resp.status = 401

\* C14: a login request (user or admin) with an unknown e-mail, or with a
\* known e-mail and a wrong password, is answered 401 'Invalid email or
\* password', whatever the state of the known account.
C14_LoginDoesNotRevealAccounts ==
  /\ (resp.op = "user.login"
        /\ (resp.cred[1] \notin DOMAIN users
              \/ ~Compare(resp.cred[2], users[resp.cred[1]].password)))
       => (resp.status = 401 /\ resp.msg = "Invalid email or password")
  /\ (resp.op = "admin.login"
        /\ (resp.cred[1] \notin DOMAIN admins
              \/ ~Compare(resp.cred[2], admins[resp.cred[1]].password)))
       => (resp.status = 401 /\ resp.msg = "Invalid email or password")

\* C15: user login with the correct password for a user whose e-mail is not
\* verified answers success with tokens: null, signs no token, upserts a
\* fresh SIGNUP verification record and hands one e-mail to EmailService.
C15_UnverifiedLogin ==
  [][(/\ resp'.op = "user.login"
      /\ resp'.cred[1] \in DOMAIN users
      /\ ~users[resp'.cred[1]].emailVerified
      /\ Compare(resp'.cred[2], users[resp'.cred[1]].password))
       => /\ resp'.status = 200
          /\ resp'.msg = "Please verify your email first"
          /\ resp'.tokens = NoTokens
          /\ issued' = issued
          /\ ~users'[resp'.cred[1]].emailVerified
          /\ emailVerification'[resp'.cred[1]].code \in Codes
          /\ emailVerification'[resp'.cred[1]].expiresAt = now + OtpWindow
          /\ emailVerification'[resp'.cred[1]].attempts = 0
          /\ resp'.mail \in {"queued", "logged", "skipped"}
    ]_vars

\* An unverified user has just logged in with the right password and the
\* verification e-mail was queued.
C15_Witness ==
  /\ resp.op = "user.login"
  /\ resp.cred[1] \in DOMAIN users
  /\ ~users[resp.cred[1]].emailVerified
  /\ Compare(resp.cred[2], users[resp.cred[1]].password)
  /\ resp.mail = "queued"
  /\ emailVerification[resp.cred[1]].code \in Codes

MailOps == {"user.login", "user.register", "user.resendVerification",
            "user.forgotPassword", "admin.forgotPassword"}

\* What each flow answers once its e-mail is on its way.
MailSentResponse(op) ==
  CASE op = "user.login" -> <<200, "Please verify your email first">>
    [] op = "user.register"
         -> <<200, "User registered successfully. Please verify your email.">>
    [] op = "user.resendVerification" -> <<200, "Verification code sent to your email">>
    [] op = "user.forgotPassword" -> <<200, "Password reset code sent to your email">>
    [] op = "admin.forgotPassword" -> <<200, "Password reset code sent to email">>

GuardRequests == {"user.guard.bearer", "user.guard.basic", "admin.guard",
                  "user.canActivate", "user.canActivate.basic", "admin.canActivate"}

\* C16: a request turned away by either guard, at authentication or at the
\* role check, is answered 401 and never another status.
C16_GuardRejectionsAre401 ==
  (resp.op \in GuardRequests /\ resp.status # 200) => resp.status = 401

\* C18: blacklistUserTokens and removeUserFromBlacklist leave the answer of
\* isAdminBlacklisted unchanged for every id, blacklistAdminTokens and
\* removeAdminFromBlacklist leave isUserBlacklisted unchanged, also for an
\* id that is both a user id and an admin id.
C18_NamespacesIndependent ==
  [][/\ (resp'.op \in {"blacklistUserTokens", "removeUserFromBlacklist"}
           => \A id \in Users \cup Admins :
                isAdminBlacklisted(id)' = isAdminBlacklisted(id))
     /\ (resp'.op \in {"blacklistAdminTokens", "removeAdminFromBlacklist"}
           => \A id \in Users \cup Admins :
                isUserBlacklisted(id)' = isUserBlacklisted(id))
    ]_vars

\* The tokens of user 1 have just been revoked while 1 is also the id of an
\* admin, who is not revoked.
C18_Witness ==
  /\ resp.op = "blacklistUserTokens"
  /\ resp.status = 200
  /\ resp.id \in Users \cap Admins
  /\ isUserBlacklisted(resp.id)
  /\ ~isAdminBlacklisted(resp.id)

\* C19: AdminService.delete rejects the deletion of the caller's own
\* account and of a super admin, and then changes neither the admin table
\* nor the revocation store.
C19_DeleteRestrictions ==
  [][(/\ resp'.op = "admin.delete"
      /\ (resp'.id = resp'.caller
            \/ (resp'.id \in DOMAIN admins /\ admins[resp'.id].isSuper)))
       => /\ resp'.status # 200
          /\ admins' = admins
          /\ redisIds' = redisIds
          /\ redisTokens' = redisTokens
    ]_vars

\* Another admin has just asked for the deletion of the super admin, who is
\* neither deleted nor revoked.
C19_Witness ==
  /\ resp.op = "admin.delete"
  /\ resp.id # resp.caller
  /\ resp.id \in DOMAIN admins
  /\ admins[resp.id].isSuper
  /\ ~admins[resp.id].isDeleted
  /\ storeUp
  /\ ~isAdminBlacklisted(resp.id)
  /\ resp.status = 400

\* C20: a create-admin request made by an authenticated admin with
\* isSuper = false is rejected and creates no admin record.
C20_OnlySuperAdminsCreate ==
  [][(/\ resp'.op = "admin.create"
      /\ resp'.caller \in DOMAIN admins
      /\ ~admins[resp'.caller].isSuper)
       => /\ resp'.status # 201
          /\ admins' = admins
    ]_vars

\* The reason a guard message stands for.
GuardReason(msg) ==
  CASE msg \in {"Invalid token: ID not present.", "Invalid token"} -> "InvalidToken"
    [] msg \in {"User tokens have been revoked.", "Admin tokens have been revoked."}
         -> "IdentityRevoked"
    [] msg \in {"User not found.", "This account does not exist.", "Admin not found"}
         -> "AccountGone"
    [] msg \in {"You can't login at the moment.", "Admin suspended"}
         -> "AccountInactive"
    [] msg \in {"Authentication failed.", "Authentication failed"} -> "AuthFailed"
    [] OTHER -> "Other"

\* C21: a guard that rejects a verified, unrevoked token names the step that
\* rejected it: InvalidToken for a payload without subject, IdentityRevoked
\* for a blanket revocation, AccountGone for a missing or deleted account,
\* AccountInactive for an account that is not active; never AuthFailed.
C21_GuardReasons ==
  (/\ resp.op \in GuardOps
   /\ resp.status # 200
   /\ Verify(resp.tok, "JWT_SECRET") = "ok"
   /\ ~isTokenBlacklisted(resp.tok))
    => GuardReason(resp.msg) \in
         {"InvalidToken", "IdentityRevoked", "AccountGone", "AccountInactive"}

\* C22: a refresh token presented as a Bearer credential is rejected by
\* both guards, and an access token presented to refreshToken is rejected
\* by both services.
C22_KindsNotInterchangeable ==
  /\ (resp.op \in GuardOps /\ resp.tok.typ = "refresh") => resp.status # 200
  /\ (resp.op \in RefreshOps /\ resp.tok.typ = "access") => resp.status # 200

\* An unexpired, unrevoked refresh token of an active user has just been
\* turned away by the user guard.
C22_Witness ==
  /\ resp.op = "user.guard.bearer"
  /\ resp.tok.typ = "refresh"
  /\ resp.tok.kind = "user"
  /\ now < resp.tok.exp
  /\ ~Blacklisted(resp.tok)
  /\ ~isUserBlacklisted(resp.tok.sub)
  /\ users[resp.tok.sub].status = "ACTIVE"
  /\ resp.status = 401

\* C23: at most three mismatching codes are compared against one
\* (email, SIGNUP) record, and a verifyEmail call that finds the record
\* expired leaves no record behind.
C23_VerifyEmailCapped ==
  /\ \A e \in Users \cup NewUsers :
       hist[SKey(e)].guesses <= MAX_PASSWORD_RESET_ATTEMPTS
  /\ (resp.op = "user.verifyEmail" /\ resp.msg = "Verification code expired")
       => emailVerification[resp.cred[1]] = NoRecord

\* C24: login, verifyEmail and refreshToken of the user service return a
\* token pair only for a user whose stored record has isDeleted = false and
\* status = ACTIVE.
C24_TokensOnlyForActiveUsers ==
  (/\ resp.op \in {"user.login", "user.verifyEmail", "user.refreshToken"}
   /\ resp.tokens # NoTokens)
    => /\ resp.id \in DOMAIN users
       /\ users[resp.id].status = "ACTIVE"
       /\ ~users[resp.id].isDeleted

\* C25: a token issued by the user service is never accepted by
\* AdminAuthGuard or by the admin refreshToken, and a token issued by the
\* admin service never by AuthGuard or by the user refreshToken, also when
\* a user and an admin have the same id.
C25_TokensBoundToKind ==
  /\ (resp.op \in {"admin.guard", "admin.refreshToken"} /\ resp.tok.kind = "user")
       => resp.status # 200
  /\ (resp.op \in {"user.guard.bearer", "user.refreshToken"} /\ resp.tok.kind = "admin")
       => resp.status # 200

\* C26: with the store reachable, once no toggleStatus call is in flight an
\* admin has a live identity-level entry exactly when the stored status is
\* DEACTIVATED.
C26_BlacklistAgreesWithStatus ==
  (storeUp /\ \A c \in Calls : calls[c] = Idle)
    => \A a \in DOMAIN admins :
         RedisGet(redisIds, IdKey("admin", a)) <=> (admins[a].status = "DEACTIVATED")

\* C28: after toggleStatus('activate') has answered success the admin has no
\* identity-level entry in the store, whatever the store did during the
\* call.
C28_ActivateClearsBlacklist ==
  (resp.op = "admin.toggleStatus" /\ resp.status = 200 /\ resp.msg = "activate")
    => ~RedisGet(redisIds, IdKey("admin", resp.id))

\* C27: whatever the interleaving of verifyResetCode / verifyCode requests,
\* at most three mismatching codes are compared against one reset record,
\* and once no request is in flight the attempts of a record are not
\* fewer than the mismatches compared against it.
C27_NoLostIncrement ==
  \A k \in ResetKeys :
    /\ hist[k].guesses <= MAX_PASSWORD_RESET_ATTEMPTS
    /\ ((\A c \in Calls : calls[c] = Idle) /\ passwordReset[k] # NoRecord)
         => passwordReset[k].attempts >= hist[k].guesses

\* C29: the reset token of verifyResetCode is never AUTHENTICATED by either
\* guard, and the user resetPassword never accepts an access token.
C29_PurposesNotConfusable ==
  /\ (resp.op \in GuardOps /\ resp.tok.typ = "reset") => resp.status # 200
  /\ (resp.op = "user.resetPassword" /\ resp.tok.typ = "access")
       => resp.status # 200

\* resetPassword has just turned away the unexpired access token of a user
\* whose reset record is verified and not expired.
C29_Witness ==
  /\ resp.op = "user.resetPassword"
  /\ resp.tok.typ = "access"
  /\ resp.tok.kind = "user"
  /\ now < resp.tok.exp
  /\ passwordReset[UKey(resp.tok.email)].verifiedAt
  /\ passwordReset[UKey(resp.tok.email)].expiresAt >= now
  /\ resp.status = 401
  /\ resp.msg = "Invalid reset token"

\* C30: the admin guard authorizes a request whose token authenticates
\* exactly when the role stored for the admin at that moment passes the
\* role check of the route, whatever role claim the token carries.
C30_StoredRoleDecides ==
  (resp.op = "admin.canActivate" /\ AuthenticateAdmin(resp.tok)[1] = 200)
    => (resp.status = 200
          <=> authorizeAdmin(admins[resp.tok.sub].role, resp.roles))

\* A token signed while the admin was ADMIN has just been turned away from
\* an ADMIN-only endpoint, the admin having been made MODERATOR since.
C30_Witness ==
  /\ resp.op = "admin.canActivate"
  /\ AuthenticateAdmin(resp.tok)[1] = 200
  /\ resp.tok.role = "ADMIN"
  /\ admins[resp.tok.sub].role = "MODERATOR"
  /\ resp.roles = Roles({"ADMIN"})
  /\ resp.status = 401
  /\ resp.msg = "Insufficient permissions"

====
